---- MODULE Spec2Model ----
(***************************************************************************)
(* Local data layer of the coffee traceability application: the            *)
(* localStorage-backed record stores (activities, trees, growth records),  *)
(* the JSON backup export/import of the settings view, and the reminder    *)
(* engine with its notification list.                                      *)
(*                                                                         *)
(* Conventions                                                             *)
(*   - An optional value (a field that may be undefined, a localStorage    *)
(*     item that may be absent) is a sequence: <<>> when absent, <<v>>     *)
(*     when present.                                                       *)
(*   - A JavaScript object is a function from its keys to values; a key    *)
(*     holding undefined is dropped by JSON.stringify, so a parsed object  *)
(*     may have fewer keys than the object that was saved.                 *)
(*   - Time is counted in half days since the epoch (HalfDaysPerDay = 2).  *)
(***************************************************************************)
EXTENDS Integers, Sequences, FiniteSets, TLC

VARIABLES
    localStorage,      \* key -> optional item (the JSON text of an array, or a string)
    backup,            \* the JSON backup file written by the last export, if any
    activities,        \* App component state: the activities it last loaded
    syncCalls,         \* ids of the activities syncActivity was invoked with
    scriptUrl,         \* import.meta.env.VITE_GOOGLE_APPS_SCRIPT_URL of the build
    requests,          \* the HTTP requests sent by fetch, oldest first
    spreadsheet,       \* the remote spreadsheet: sheet name -> optional rows
    tabs,              \* per browser tab: the save() it is inside, and its history
    now,               \* the clock, in half days since the epoch
    defaultReminders,  \* reminder.ts: the module-level array of default reminders
    reminders,         \* ReminderSettings component state: unmounted, or its list
    emitted,           \* history: emissions of the current day, per reminder type
    lastOp             \* history: the operation that produced this state

vars == <<localStorage, backup, activities, syncCalls, scriptUrl, requests,
         spreadsheet, tabs, now, defaultReminders, reminders, emitted, lastOp>>

\* What lies outside the page's own data: the sheet sync, the remote
\* spreadsheet and the other tabs.
outside == <<syncCalls, scriptUrl, requests, spreadsheet, tabs>>

----------------------------------------------------------------------------
(* Optional values and JSON                                                *)

Undefined == <<>>

Some(v) == <<v>>

\* Keys whose value may be undefined in the TypeScript interfaces.
OptionalKeys == {"numericValue", "height", "name", "lastNotified", "activityType"}

\* obj.key of a JavaScript object: undefined when the key is missing.
Field(obj, key) == IF key \in DOMAIN obj THEN obj[key] ELSE Undefined

\* JSON.stringify of one object: keys holding undefined are omitted.
JSON_stringifyObject(obj) ==
    [k \in {kk \in DOMAIN obj : ~(kk \in OptionalKeys /\ obj[kk] = Undefined)} |-> obj[k]]

\* JSON.stringify of an array of objects.
JSON_stringify(arr) == [i \in 1..Len(arr) |-> JSON_stringifyObject(arr[i])]

\* JSON.parse of a text produced by JSON_stringify: the objects as written.
JSON_parse(text) == text

\* Two objects read the same on every key of either.
SameFields(o1, o2) ==
    \A k \in (DOMAIN o1) \cup (DOMAIN o2) : Field(o1, k) = Field(o2, k)

----------------------------------------------------------------------------
(* Array helpers                                                           *)

\* Array.prototype.findIndex on the id; 0 stands for JavaScript's -1.
findIndex(arr, id) ==
    IF \E i \in 1..Len(arr) : arr[i].id = id
    THEN CHOOSE i \in 1..Len(arr) :
            /\ arr[i].id = id
            /\ \A j \in 1..(i - 1) : arr[j].id # id
    ELSE 0

\* Removal by arr.splice(arr.findIndex(...), 1): an index of -1 removes the
\* last element.
filterNotId_splice(arr, id) ==
    LET index == IF findIndex(arr, id) = 0 THEN Len(arr) ELSE findIndex(arr, id)
    IN  [i \in 1..(Len(arr) - (IF arr = <<>> THEN 0 ELSE 1)) |->
            IF i < index THEN arr[i] ELSE arr[i + 1]]

\* Array.prototype.filter(x => x.id !== id)
RECURSIVE filterNotId(_, _)
filterNotId(arr, id) ==
    IF arr = <<>> THEN <<>>
    ELSE IF Head(arr).id = id THEN filterNotId(Tail(arr), id)
    ELSE <<Head(arr)>> \o filterNotId(Tail(arr), id)

\* upsert without the lookup: the record is always pushed.
upsert_alwaysPush(arr, rec) == Append(arr, rec)

\* arr[index] = rec when index >= 0, arr.push(rec) otherwise.
upsert(arr, rec) ==
    LET existingIndex == findIndex(arr, rec.id)
    IN  IF existingIndex > 0
        THEN [arr EXCEPT ![existingIndex] = rec]
        ELSE Append(arr, rec)

\* compare(a, b) of activities.sort: new Date(b.date) - new Date(a.date).
compareDateDesc(a, b) == b.date - a.date

\* compare(a, b) of trees.sort: a.treeId.localeCompare(b.treeId); tree codes
\* are modelled by numbers ordered as the codes collate.
compareTreeId(a, b) == a.treeId - b.treeId

\* The comparator each store hands to Array.prototype.sort.
compare(key, a, b) ==
    IF key = "beanlog_activities" THEN compareDateDesc(a, b) ELSE compareTreeId(a, b)

\* Array.prototype.sort is stable: an element is placed behind every element
\* that does not compare greater than it.
RECURSIVE insertSorted(_, _, _)
insertSorted(sorted, x, key) ==
    IF sorted = <<>> THEN <<x>>
    ELSE IF compare(key, Head(sorted), x) > 0
         THEN <<x>> \o sorted
         ELSE <<Head(sorted)>> \o insertSorted(Tail(sorted), x, key)

\* A sort that leaves the array as it is.
sort_none(arr, key) == arr

RECURSIVE sort(_, _)
sort(arr, key) ==
    IF arr = <<>> THEN <<>>
    ELSE insertSorted(sort(SubSeq(arr, 1, Len(arr) - 1), key), arr[Len(arr)], key)

Ids(arr) == {arr[i].id : i \in 1..Len(arr)}

----------------------------------------------------------------------------
(* localStorage and the three record stores                                *)

STORAGE_KEY_ACTIVITIES == "beanlog_activities"
STORAGE_KEY_TREES == "beanlog_trees"
STORAGE_KEY_GROWTH == "beanlog_growth_records"

\* localStorage.getItem: <<>> stands for null.
getItem(ls, key) == ls[key]

\* A setItem that loses the item when the write fails.
setItem_torn(ls, key, arr, writeFails) ==
    IF writeFails THEN [ls EXCEPT ![key] = <<>>]
    ELSE [ls EXCEPT ![key] = Some(JSON_stringify(arr))]

\* localStorage.setItem(key, JSON.stringify(arr)); when the write fails
\* (quota exceeded) setItem throws and the item keeps its value.
setItem(ls, key, arr, writeFails) ==
    IF writeFails THEN ls ELSE [ls EXCEPT ![key] = Some(JSON_stringify(arr))]

\* localStorage.removeItem(key)
removeItem(ls, key) == [ls EXCEPT ![key] = <<>>]

\* getAll of the three stores: data ? JSON.parse(data) : []
getAll(ls, key) ==
    IF getItem(ls, key) = <<>> THEN <<>> ELSE JSON_parse(getItem(ls, key)[1])

storageService_getAll(ls) == getAll(ls, STORAGE_KEY_ACTIVITIES)

treeService_getAll(ls) == getAll(ls, STORAGE_KEY_TREES)

growthRecordService_getAll(ls) == getAll(ls, STORAGE_KEY_GROWTH)

\* save(): upsert by id, re-sort, write the whole collection back.  The result
\* is the storage after the call; the call throws exactly when the write fails.
storageService_save(ls, activity, writeFails) ==
    setItem(ls, STORAGE_KEY_ACTIVITIES,
            sort(upsert(storageService_getAll(ls), activity), STORAGE_KEY_ACTIVITIES),
            writeFails)

treeService_save(ls, tree, writeFails) ==
    setItem(ls, STORAGE_KEY_TREES,
            sort(upsert(treeService_getAll(ls), tree), STORAGE_KEY_TREES),
            writeFails)

growthRecordService_save(ls, record, writeFails) ==
    setItem(ls, STORAGE_KEY_GROWTH,
            upsert(growthRecordService_getAll(ls), record),
            writeFails)

\* delete(): filter the id out and write the whole collection back.
storageService_delete(ls, id, writeFails) ==
    setItem(ls, STORAGE_KEY_ACTIVITIES,
            filterNotId(storageService_getAll(ls), id), writeFails)

\* A tree deletion that also drops the growth records.
treeService_delete_cascade(ls, id, writeFails) ==
    removeItem(setItem(ls, STORAGE_KEY_TREES,
                       filterNotId(treeService_getAll(ls), id), writeFails),
               STORAGE_KEY_GROWTH)

treeService_delete(ls, id, writeFails) ==
    setItem(ls, STORAGE_KEY_TREES,
            filterNotId(treeService_getAll(ls), id), writeFails)

growthRecordService_delete(ls, id, writeFails) ==
    setItem(ls, STORAGE_KEY_GROWTH,
            filterNotId(growthRecordService_getAll(ls), id), writeFails)

\* A lookup that returns the last tree of the code.
treeService_getByTreeId_last(ls, treeId) ==
    LET trees == treeService_getAll(ls)
        hits == {i \in 1..Len(trees) : trees[i].treeId = treeId}
    IN  IF hits = {} THEN Undefined
        ELSE Some(trees[CHOOSE i \in hits : \A j \in hits : j <= i])

\* getByTreeId(): Array.prototype.find, the first tree of the code in the
\* stored order, undefined when there is none.
treeService_getByTreeId(ls, treeId) ==
    LET trees == treeService_getAll(ls)
        hits == {i \in 1..Len(trees) : trees[i].treeId = treeId}
    IN  IF hits = {} THEN Undefined
        ELSE Some(trees[CHOOSE i \in hits : \A j \in hits : i <= j])

\* clearAll() removing the tree key instead of the activity key.
storageService_clearAll_wrongKey(ls) == removeItem(ls, STORAGE_KEY_TREES)

\* clearAll(): remove the activity key.
storageService_clearAll(ls) == removeItem(ls, STORAGE_KEY_ACTIVITIES)

----------------------------------------------------------------------------
(* Records                                                                 *)

Activity(id, type, date, numericValue) ==
    [id |-> id, type |-> type, date |-> date, numericValue |-> numericValue]

Tree(id, treeId, name) == [id |-> id, treeId |-> treeId, name |-> name]

GrowthRecord(id, treeId, date, height) ==
    [id |-> id, treeId |-> treeId, date |-> date, height |-> height]

----------------------------------------------------------------------------
(* History                                                                 *)

\* The operation that produced the state: its name, the storage key it acted
\* on, the id and record it was given, whether it threw, the number of
\* records the collection held when it was called, what it returned, and
\* which of its swallowed storage writes failed.
Op(name, key, id, rec, threw, pre) ==
    [op |-> name, key |-> key, id |-> id, rec |-> rec, threw |-> threw, pre |-> pre,
     ret |-> <<>>, failed |-> {}]

NoOp == Op("init", "", "", <<>>, FALSE, 0)

\* What a store operation leaves alone.
StoreFrame ==
    UNCHANGED <<backup, activities, outside, now, defaultReminders, reminders, emitted>>

----------------------------------------------------------------------------
(* Time                                                                    *)

\* 1000 * 60 * 60 * 24 milliseconds, in clock units.
HalfDaysPerDay == 2

\* The clock value at which the application is first opened.
Now0 == 7 * HalfDaysPerDay

\* now.toISOString().split('T')[0]: the calendar day of a clock value.
today(t) == t \div HalfDaysPerDay

----------------------------------------------------------------------------
(* Reminder engine (reminder.ts)                                           *)

REMINDER_STORAGE_KEY == "coffee_traceability_reminders"
NOTIFICATION_STORAGE_KEY == "coffee_traceability_notifications"
INACTIVITY_DAYS == 7
MAX_NOTIFICATIONS == 50

Reminder(id, type, intervalDays, enabled) ==
    [id |-> id, type |-> type, intervalDays |-> intervalDays, enabled |-> enabled]

\* const defaultReminders, as the module is loaded.
defaultReminders0 ==
    << Reminder("fertilize", "fertilize", 30, TRUE),
       Reminder("prune", "prune", 90, TRUE),
       Reminder("pestControl", "pestControl", 14, TRUE),
       Reminder("mowing", "mowing", 14, TRUE),
       Reminder("observe", "observe", 7, TRUE) >>

\* obj.key = value on an object that may lack the key.
setField(obj, key, value) ==
    [k \in (DOMAIN obj) \cup {key} |-> IF k = key THEN value ELSE obj[k]]

\* saveReminders / saveNotifications: a failing write is logged and swallowed.
saveReminders(ls, list, writeFails) == setItem(ls, REMINDER_STORAGE_KEY, list, writeFails)

saveNotifications(ls, list, writeFails) ==
    setItem(ls, NOTIFICATION_STORAGE_KEY, list, writeFails)

\* getReminders: the parsed item, or, when the item is absent, the module's
\* own defaultReminders array (alias) after an attempt to save it.
getReminders(ls, defaults, writeFails) ==
    IF getItem(ls, REMINDER_STORAGE_KEY) # <<>>
    THEN [ls |-> ls, list |-> JSON_parse(getItem(ls, REMINDER_STORAGE_KEY)[1]),
          alias |-> FALSE]
    ELSE [ls |-> saveReminders(ls, defaults, writeFails), list |-> defaults,
          alias |-> TRUE]

getNotifications(ls) == getAll(ls, NOTIFICATION_STORAGE_KEY)

\* updateReminder: replace by id or push, then save.  When getReminders
\* handed out the defaults array, the replacement is made in that array.
updateReminder(ls, defaults, reminder, initFails, writeFails) ==
    LET g == getReminders(ls, defaults, initFails)
        list == upsert(g.list, reminder)
    IN  [ls |-> saveReminders(g.ls, list, writeFails),
         defaults |-> IF g.alias THEN list ELSE defaults]

\* The notification object built by addNotification and by checkReminders.
Notification(id, type, activityType, createdAt) ==
    [id |-> id, type |-> type, activityType |-> activityType,
     createdAt |-> createdAt, read |-> FALSE]

\* notifications.unshift(n); if (notifications.length > 50) notifications.pop()
unshiftCapped(list, n) ==
    LET all == <<n>> \o list
    IN  IF Len(all) > MAX_NOTIFICATIONS THEN SubSeq(all, 1, Len(all) - 1) ELSE all

\* addNotification(notification): id notification_<Date.now()>
addNotification(ls, type, activityType, t, writeFails) ==
    saveNotifications(ls,
        unshiftCapped(getNotifications(ls),
                      Notification(<<"notification", t, "">>, type, activityType, t)),
        writeFails)

\* markAsRead(id): the first notification with the id, when there is one.
markAsRead(ls, id, writeFails) ==
    LET list == getNotifications(ls)
        index == findIndex(list, id)
    IN  IF index > 0
        THEN saveNotifications(ls, [list EXCEPT ![index].read = TRUE], writeFails)
        ELSE ls

markAllAsRead(ls, writeFails) ==
    LET list == getNotifications(ls)
    IN  saveNotifications(ls, [i \in 1..Len(list) |-> [list[i] EXCEPT !.read = TRUE]],
                          writeFails)

clearNotifications(ls, writeFails) == saveNotifications(ls, <<>>, writeFails)

\* activities.filter(a => a.type === type)
RECURSIVE filterType(_, _)
filterType(arr, type) ==
    IF arr = <<>> THEN <<>>
    ELSE IF Head(arr).type = type THEN <<Head(arr)>> \o filterType(Tail(arr), type)
    ELSE filterType(Tail(arr), type)

\* Math.floor((now - lastActivityDate) / (1000 * 60 * 60 * 24))
daysSince(t, date) == (t - date) \div HalfDaysPerDay

\* The due rule with a strict comparison.
shouldNotify_strict(acts, reminder, t) ==
    LET last == sort(filterType(acts, reminder.type), STORAGE_KEY_ACTIVITIES)
    IN  IF last = <<>> THEN TRUE
        ELSE daysSince(t, last[1].date) > reminder.intervalDays

\* shouldNotify of one reminder: no activity of its type, or the latest one at
\* least intervalDays whole days old.
shouldNotify(acts, reminder, t) ==
    LET last == sort(filterType(acts, reminder.type), STORAGE_KEY_ACTIVITIES)
    IN  IF last = <<>> THEN TRUE
        ELSE daysSince(t, last[1].date) >= reminder.intervalDays

\* A reminder that fires in every pass in which it is enabled and due.
fires_everyPass(acts, reminder, t) ==
    /\ reminder.enabled
    /\ shouldNotify(acts, reminder, t)

\* A reminder fires in a pass when it is enabled, was not notified today and
\* is due.
fires(acts, reminder, t) ==
    /\ reminder.enabled
    /\ Field(reminder, "lastNotified") # Some(today(t))
    /\ shouldNotify(acts, reminder, t)

\* The loop over the reminders: the notifications pushed, in order.
RECURSIVE reminderNotifications(_, _, _)
reminderNotifications(acts, list, t) ==
    IF list = <<>> THEN <<>>
    ELSE (IF fires(acts, Head(list), t)
          THEN <<Notification(<<"notification", t, Head(list).id>>, "reminder",
                              Some(Head(list).type), t)>>
          ELSE <<>>) \o reminderNotifications(acts, Tail(list), t)

\* A loop that also switches off the reminders that fired.
stamped_switchingOff(acts, list, t) ==
    [i \in 1..Len(list) |->
        IF fires(acts, list[i], t)
        THEN [setField(list[i], "lastNotified", Some(today(t))) EXCEPT !.enabled = FALSE]
        ELSE list[i]]

\* The loop over the reminders: the list with lastNotified stamped on the
\* reminders that fired.
stamped(acts, list, t) ==
    [i \in 1..Len(list) |->
        IF fires(acts, list[i], t)
        THEN setField(list[i], "lastNotified", Some(today(t)))
        ELSE list[i]]

\* The inactivity check: the latest activity of any type is at least
\* INACTIVITY_DAYS whole days old and no stored inactivity notification was
\* created today.
inactivityNotifications(ls, acts, t) ==
    LET last == sort(acts, STORAGE_KEY_ACTIVITIES)
        existing == getNotifications(ls)
    IN  IF /\ last # <<>>
           /\ daysSince(t, last[1].date) >= INACTIVITY_DAYS
           /\ ~\E i \in 1..Len(existing) :
                  /\ existing[i].type = "inactivity"
                  /\ today(existing[i].createdAt) = today(t)
        THEN <<Notification(<<"notification_inactivity", t, "">>, "inactivity",
                            Undefined, t)>>
        ELSE <<>>

\* A truncation that keeps the tail of the list.
truncate_keepTail(list) ==
    IF Len(list) > MAX_NOTIFICATIONS
    THEN SubSeq(list, Len(list) - MAX_NOTIFICATIONS + 1, Len(list))
    ELSE list

\* allNotifications.length = 50 when longer
truncate(list) ==
    IF Len(list) > MAX_NOTIFICATIONS THEN SubSeq(list, 1, MAX_NOTIFICATIONS) ELSE list

\* checkReminders: the storage and the defaults array after the pass, and the
\* notifications returned.  initFails, notifFails, remFails: whether the write
\* of the defaults (first use), of the notification list and of the reminder
\* list fail.
checkReminders(ls, defaults, t, initFails, notifFails, remFails) ==
    LET acts == storageService_getAll(ls)
        g == getReminders(ls, defaults, initFails)
        list == stamped(acts, g.list, t)
        new == reminderNotifications(acts, g.list, t)
                 \o inactivityNotifications(g.ls, acts, t)
        ls1 == IF new = <<>> THEN g.ls
               ELSE saveNotifications(g.ls, truncate(new \o getNotifications(g.ls)),
                                      notifFails)
        ls2 == IF new = <<>> THEN ls1 ELSE saveReminders(ls1, list, remFails)
    IN  [ls |-> ls2,
         defaults |-> IF g.alias THEN list ELSE defaults,
         ret |-> new]

\* History of emissions of the current day: per notification kind (a reminder
\* type, or "inactivity") the number of notifications emitted, counted to 2.
EmissionKinds == {"fertilize", "prune", "pestControl", "mowing", "observe", "inactivity"}

NoneEmitted == [k \in EmissionKinds |-> 0]

KindOf(n) == IF n.type = "reminder" THEN n.activityType[1] ELSE n.type

count(e, new) ==
    [k \in EmissionKinds |->
        LET c == e[k] + Cardinality({i \in 1..Len(new) : KindOf(new[i]) = k})
        IN  IF c > 2 THEN 2 ELSE c]

----------------------------------------------------------------------------
(* Sheet sync (sheets.ts) and the Apps Script endpoint                     *)

STORAGE_KEY_SHEET_ID == "beanlog_sheet_id"
STORAGE_KEY_SHEET_NAME == "beanlog_sheet_name"

\* JavaScript truthiness of an optional string: neither null/undefined nor ''.
Truthy(opt) == opt # <<>> /\ opt[1] # ""

\* A getConfig that only requires the spreadsheet id.
getConfig_idOnly(ls) ==
    LET id == getItem(ls, STORAGE_KEY_SHEET_ID)
        name == getItem(ls, STORAGE_KEY_SHEET_NAME)
    IN  IF id # <<>> /\ id[1] # ""
        THEN Some([spreadsheetId |-> id[1],
                   sheetName |-> IF name = <<>> THEN "" ELSE name[1]])
        ELSE <<>>

\* getConfig(): the configuration when both items are truthy, null otherwise.
getConfig(ls) ==
    LET id == getItem(ls, STORAGE_KEY_SHEET_ID)
        name == getItem(ls, STORAGE_KEY_SHEET_NAME)
    IN  IF Truthy(id) /\ Truthy(name)
        THEN Some([spreadsheetId |-> id[1], sheetName |-> name[1]])
        ELSE <<>>

\* saveConfig(config): two writes, the failAt-th of which throws (0: none).
saveConfig(ls, config, failAt) ==
    LET ls1 == [ls EXCEPT ![STORAGE_KEY_SHEET_ID] = Some(config.spreadsheetId)]
    IN  IF failAt = 1 THEN ls
        ELSE IF failAt = 2 THEN ls1
        ELSE [ls1 EXCEPT ![STORAGE_KEY_SHEET_NAME] = Some(config.sheetName)]

\* clearConfig()
clearConfig(ls) == removeItem(removeItem(ls, STORAGE_KEY_SHEET_ID), STORAGE_KEY_SHEET_NAME)

\* x || '' of an optional string.
orEmpty(opt) == IF Truthy(opt) THEN opt[1] ELSE ""

\* x?.toString() || '' of an optional number: the decimal text of a number is
\* never empty.
numberOrEmpty(opt) == IF opt = <<>> THEN "" ELSE ToString(opt[1])

\* date.toLocaleDateString('ja-JP') and date.toLocaleTimeString('ja-JP') of a
\* clock value: the text of its day and of its half day within the day.
toLocaleDateString(date) == ToString(date \div HalfDaysPerDay)

toLocaleTimeString(date) == ToString(date % HalfDaysPerDay)

\* A row whose value column uses String(x) in place of x?.toString() || ''.
activityToRow_stringOf(activity) ==
    LET weather == Field(activity, "weather")
        ai == Field(activity, "aiDiagnosis")
        value == Field(activity, "numericValue")
    IN  << activity.id, activity.type,
           toLocaleDateString(activity.date), toLocaleTimeString(activity.date),
           orEmpty(Field(activity, "treeId")), activity.description,
           IF value = <<>> THEN "undefined" ELSE ToString(value[1]),
           orEmpty(Field(activity, "numericUnit")),
           ToString(Len(activity.photos)),
           IF weather = <<>> THEN "" ELSE weather[1].condition,
           IF weather = <<>> THEN "" ELSE ToString(weather[1].temperature),
           IF weather = <<>> THEN "" ELSE numberOrEmpty(Field(weather[1], "humidity")),
           IF ai = <<>> THEN "" ELSE orEmpty(Field(ai[1], "disease")),
           IF ai = <<>> THEN "" ELSE orEmpty(Field(ai[1], "pest")),
           IF ai = <<>> THEN "" ELSE orEmpty(Field(ai[1], "ripeness")),
           IF ai = <<>> THEN "" ELSE ai[1].advice,
           activity.createdAt, activity.updatedAt >>

\* activityToRow(activity): the 18 cells of the sheet row.
activityToRow(activity) ==
    LET weather == Field(activity, "weather")
        ai == Field(activity, "aiDiagnosis")
    IN  << activity.id, activity.type,
           toLocaleDateString(activity.date), toLocaleTimeString(activity.date),
           orEmpty(Field(activity, "treeId")), activity.description,
           numberOrEmpty(Field(activity, "numericValue")),
           orEmpty(Field(activity, "numericUnit")),
           ToString(Len(activity.photos)),
           IF weather = <<>> THEN "" ELSE weather[1].condition,
           IF weather = <<>> THEN "" ELSE ToString(weather[1].temperature),
           IF weather = <<>> THEN "" ELSE numberOrEmpty(Field(weather[1], "humidity")),
           IF ai = <<>> THEN "" ELSE orEmpty(Field(ai[1], "disease")),
           IF ai = <<>> THEN "" ELSE orEmpty(Field(ai[1], "pest")),
           IF ai = <<>> THEN "" ELSE orEmpty(Field(ai[1], "ripeness")),
           IF ai = <<>> THEN "" ELSE ai[1].advice,
           activity.createdAt, activity.updatedAt >>

\* A syncActivity that sends the request a second time when the first fails.
syncActivity_retry(ls, url, activity, outcome) ==
    LET config == getConfig(ls)
        request == [method |-> "POST", url |-> url[1],
                    body |-> [action |-> "append",
                              spreadsheetId |-> config[1].spreadsheetId,
                              sheetName |-> config[1].sheetName,
                              row |-> activityToRow(activity)]]
    IN  IF config = <<>> THEN [error |-> "config", sent |-> <<>>]
        ELSE IF url = <<>> \/ url[1] = "" THEN [error |-> "url", sent |-> <<>>]
        ELSE IF outcome = "ok" THEN [error |-> "", sent |-> <<request>>]
        ELSE [error |-> outcome, sent |-> <<request, request>>]

\* syncActivity(activity): the error it throws ("" when it resolves) and the
\* request it sends, if any.  outcome is what fetch meets: "ok", a response
\* with a non-success status ("status"), or a rejected call ("network").
syncActivity(ls, url, activity, outcome) ==
    LET config == getConfig(ls)
    IN  IF config = <<>> THEN [error |-> "config", sent |-> <<>>]
        ELSE IF ~Truthy(url) THEN [error |-> "url", sent |-> <<>>]
        ELSE [error |-> IF outcome = "ok" THEN "" ELSE outcome,
              sent |-> << [method |-> "POST", url |-> url[1],
                           body |-> [action |-> "append",
                                     spreadsheetId |-> config[1].spreadsheetId,
                                     sheetName |-> config[1].sheetName,
                                     row |-> activityToRow(activity)]] >>]

\* The header row doPost writes into a sheet it creates (column labels in
\* English).
HEADERS ==
    << "ID", "type", "date", "time", "tree", "description", "value", "unit",
       "photos", "weather", "temperature", "humidity", "disease", "pest",
       "ripeness", "advice", "createdAt", "updatedAt" >>

\* The spreadsheet the endpoint can open, and the sheets a spreadsheet may
\* hold.
SPREADSHEET_ID == "book1"

SheetNames == {"Sheet1", "BeanLog"}

\* doPost(e): for action 'append' the sheet is created with the header row
\* when it does not exist, and the row is appended; an id that cannot be
\* opened throws into the catch block.  The spreadsheet afterwards and the
\* success flag of the JSON reply.
doPost(book, body) ==
    IF body.action # "append" THEN [book |-> book, success |-> FALSE]
    ELSE IF body.spreadsheetId # SPREADSHEET_ID THEN [book |-> book, success |-> FALSE]
    ELSE LET sheet == book[body.sheetName]
             rows == IF sheet = <<>> THEN <<HEADERS>> ELSE sheet[1]
         IN  [book |-> [book EXCEPT ![body.sheetName] = Some(Append(rows, body.row))],
              success |-> TRUE]

----------------------------------------------------------------------------
(* Delimited-text export (storageService.exportToCSV)                      *)

\* A text is a sequence of characters; a run of characters none of which is a
\* comma, a double quote or a line break is written as one element.
COMMA == ","
QUOTE == "\""
LF == "\n"
BOM == "<U+FEFF>"
FULLWIDTH_COMMA == "<U+FF0C>"

\* text.replace(/,/g, '，')
replaceCommas(text) ==
    [i \in 1..Len(text) |-> IF text[i] = COMMA THEN FULLWIDTH_COMMA ELSE text[i]]

\* `"${cell}"`
quoted(cell) == <<QUOTE>> \o cell \o <<QUOTE>>

\* Array.prototype.join of texts
RECURSIVE join(_, _)
join(texts, separator) ==
    IF texts = <<>> THEN <<>>
    ELSE IF Len(texts) = 1 THEN texts[1]
    ELSE texts[1] \o <<separator>> \o join(Tail(texts), separator)

\* The header labels of exportToCSV (in English).
CSV_HEADERS ==
    << <<"ID">>, <<"type">>, <<"date">>, <<"tree">>, <<"description">>, <<"value">>,
       <<"unit">>, <<"photos">>, <<"weather">>, <<"temperature">>, <<"advice">>,
       <<"createdAt">> >>

\* The text of an optional text: '' when absent.
textOrEmpty(opt) == IF opt = <<>> THEN <<>> ELSE opt[1]

\* The text of an optional number: '' when absent.
numberTextOrEmpty(opt) == IF opt = <<>> THEN <<>> ELSE <<ToString(opt[1])>>

\* The cells of one activity, before quoting.
csvRow(activity) ==
    LET weather == Field(activity, "weather")
        ai == Field(activity, "aiDiagnosis")
    IN  << <<activity.id>>, <<activity.type>>, <<ToString(activity.date)>>,
           textOrEmpty(Field(activity, "treeId")),
           replaceCommas(activity.description),
           numberTextOrEmpty(Field(activity, "numericValue")),
           textOrEmpty(Field(activity, "numericUnit")),
           <<ToString(Len(activity.photos))>>,
           IF weather = <<>> THEN <<>> ELSE <<weather[1].condition>>,
           IF weather = <<>> THEN <<>> ELSE <<ToString(weather[1].temperature)>>,
           IF ai = <<>> THEN <<>> ELSE replaceCommas(ai[1].advice),
           <<activity.createdAt>> >>

\* exportToCSV(): '' for an empty store; otherwise the header labels joined
\* by commas and one line of quoted cells per activity, joined by line breaks.
exportToCSV(ls) ==
    LET stored == storageService_getAll(ls)
        lines == <<join(CSV_HEADERS, COMMA)>> \o
                 [i \in 1..Len(stored) |->
                     join([j \in 1..12 |-> quoted(csvRow(stored[i])[j])], COMMA)]
    IN  IF stored = <<>> THEN <<>> ELSE join(lines, LF)

----------------------------------------------------------------------------
(* Browser tabs running save() on the shared localStorage                  *)

\* The browser tabs that share the localStorage.
Tabs == {"tab1", "tab2"}

\* A tab that has saved nothing and is not inside save(): saving holds the
\* activity, the item read and the array built from it while the tab is
\* between the read and the write of a save(); saved is the history of the
\* ids whose save() has returned in the tab.
IdleTab == [saving |-> <<>>, saved |-> {}]

\* A save() that builds its array from the new record alone.
tabSnapshot_fresh(ls, activity) == <<activity>>

\* Lines 150-159 of save(): the array built from the collection read.
tabSnapshot(ls, activity) ==
    sort(upsert(storageService_getAll(ls), activity), STORAGE_KEY_ACTIVITIES)

----------------------------------------------------------------------------
(* Initial state: nothing has been written to localStorage yet, the build    *)
(* has no script URL and the spreadsheet holds its one empty default sheet. *)

Init ==
    /\ localStorage = [k \in {STORAGE_KEY_ACTIVITIES, STORAGE_KEY_TREES,
                               STORAGE_KEY_GROWTH, REMINDER_STORAGE_KEY,
                               NOTIFICATION_STORAGE_KEY, STORAGE_KEY_SHEET_ID,
                               STORAGE_KEY_SHEET_NAME} |-> <<>>]
    /\ backup = <<>>
    /\ activities = <<>>
    /\ syncCalls = {}
    /\ scriptUrl = Undefined
    /\ requests = <<>>
    /\ spreadsheet = [n \in SheetNames |-> IF n = "Sheet1" THEN Some(<<>>) ELSE <<>>]
    /\ tabs = [t \in Tabs |-> IdleTab]
    /\ now = Now0
    /\ defaultReminders = defaultReminders0
    /\ reminders = <<>>
    /\ emitted = NoneEmitted
    /\ lastOp = NoOp

----------------------------------------------------------------------------
(* The store operations as steps                                           *)

StorageSave(activity, writeFails) ==
    /\ localStorage' = storageService_save(localStorage, activity, writeFails)
    /\ lastOp' = Op("save", STORAGE_KEY_ACTIVITIES, activity.id, Some(activity),
                    writeFails, Len(storageService_getAll(localStorage)))
    /\ StoreFrame

StorageDelete(id, writeFails) ==
    /\ localStorage' = storageService_delete(localStorage, id, writeFails)
    /\ lastOp' = Op("delete", STORAGE_KEY_ACTIVITIES, id, <<>>,
                    writeFails, Len(storageService_getAll(localStorage)))
    /\ StoreFrame

StorageClearAll ==
    /\ localStorage' = storageService_clearAll(localStorage)
    /\ lastOp' = Op("clearAll", STORAGE_KEY_ACTIVITIES, "", <<>>,
                    FALSE, Len(storageService_getAll(localStorage)))
    /\ StoreFrame

TreeSave(tree, writeFails) ==
    /\ localStorage' = treeService_save(localStorage, tree, writeFails)
    /\ lastOp' = Op("save", STORAGE_KEY_TREES, tree.id, Some(tree),
                    writeFails, Len(treeService_getAll(localStorage)))
    /\ StoreFrame

TreeDelete(id, writeFails) ==
    /\ localStorage' = treeService_delete(localStorage, id, writeFails)
    /\ lastOp' = Op("delete", STORAGE_KEY_TREES, id, <<>>,
                    writeFails, Len(treeService_getAll(localStorage)))
    /\ StoreFrame

GrowthSave(record, writeFails) ==
    /\ localStorage' = growthRecordService_save(localStorage, record, writeFails)
    /\ lastOp' = Op("save", STORAGE_KEY_GROWTH, record.id, Some(record),
                    writeFails, Len(growthRecordService_getAll(localStorage)))
    /\ StoreFrame

GrowthDelete(id, writeFails) ==
    /\ localStorage' = growthRecordService_delete(localStorage, id, writeFails)
    /\ lastOp' = Op("delete", STORAGE_KEY_GROWTH, id, <<>>,
                    writeFails, Len(growthRecordService_getAll(localStorage)))
    /\ StoreFrame

----------------------------------------------------------------------------
(* The reminder engine, the settings view and the clock as steps           *)

\* What an operation of the reminder service leaves alone.
ReminderFrame == UNCHANGED <<backup, activities, outside, now, reminders>>

\* The clock advances by half a day; the emission history starts over when
\* the calendar day changes.
Tick ==
    /\ now' = now + 1
    /\ emitted' = IF today(now + 1) # today(now) THEN NoneEmitted ELSE emitted
    /\ lastOp' = Op("tick", "", "", <<>>, FALSE, 0)
    /\ UNCHANGED <<localStorage, backup, activities, outside, defaultReminders, reminders>>

\* The page is loaded again: the module is initialised, the App component
\* mounts and loads the activities, the settings view is not shown.
Reload ==
    /\ defaultReminders' = defaultReminders0
    /\ reminders' = <<>>
    /\ activities' = storageService_getAll(localStorage)
    /\ lastOp' = Op("reload", "", "", <<>>, FALSE, 0)
    /\ UNCHANGED <<localStorage, backup, outside, now, emitted>>

\* reminderService.checkReminders().  A failure flag is only chosen for a
\* write the pass attempts.
CheckReminders(initFails, notifFails, remFails) ==
    LET r == checkReminders(localStorage, defaultReminders, now,
                            initFails, notifFails, remFails)
    IN  /\ initFails => getItem(localStorage, REMINDER_STORAGE_KEY) = <<>>
        /\ (notifFails \/ remFails) => r.ret # <<>>
        /\ localStorage' = r.ls
        /\ defaultReminders' = r.defaults
        /\ emitted' = count(emitted, r.ret)
        /\ lastOp' = [Op("checkReminders", "", "", <<>>, FALSE,
                         Len(getNotifications(localStorage)))
                         EXCEPT !.ret = r.ret,
                                !.failed = {w \in {"init", "notifications", "reminders"} :
                                              \/ w = "init" /\ initFails
                                              \/ w = "notifications" /\ notifFails
                                              \/ w = "reminders" /\ remFails}]
        /\ ReminderFrame

\* reminderService.addNotification(notification)
AddNotification(type, activityType, writeFails) ==
    /\ localStorage' = addNotification(localStorage, type, activityType, now, writeFails)
    /\ lastOp' = [Op("addNotification", "", "", <<>>, FALSE,
                     Len(getNotifications(localStorage)))
                     EXCEPT !.failed = IF writeFails THEN {"notifications"} ELSE {}]
    /\ UNCHANGED <<defaultReminders, emitted>>
    /\ ReminderFrame

\* reminderService.markAsRead(id)
MarkAsRead(id, writeFails) ==
    /\ writeFails => findIndex(getNotifications(localStorage), id) > 0
    /\ localStorage' = markAsRead(localStorage, id, writeFails)
    /\ lastOp' = [Op("markAsRead", "", "", <<>>, FALSE,
                     Len(getNotifications(localStorage)))
                     EXCEPT !.failed = IF writeFails THEN {"notifications"} ELSE {}]
    /\ UNCHANGED <<defaultReminders, emitted>>
    /\ ReminderFrame

\* reminderService.markAllAsRead()
MarkAllAsRead(writeFails) ==
    /\ localStorage' = markAllAsRead(localStorage, writeFails)
    /\ lastOp' = [Op("markAllAsRead", "", "", <<>>, FALSE,
                     Len(getNotifications(localStorage)))
                     EXCEPT !.failed = IF writeFails THEN {"notifications"} ELSE {}]
    /\ UNCHANGED <<defaultReminders, emitted>>
    /\ ReminderFrame

\* reminderService.clearNotifications()
ClearNotifications(writeFails) ==
    /\ localStorage' = clearNotifications(localStorage, writeFails)
    /\ lastOp' = [Op("clearNotifications", "", "", <<>>, FALSE,
                     Len(getNotifications(localStorage)))
                     EXCEPT !.failed = IF writeFails THEN {"notifications"} ELSE {}]
    /\ UNCHANGED <<defaultReminders, emitted>>
    /\ ReminderFrame

\* reminderService.updateReminder(reminder)
UpdateReminder(reminder, writeFails) ==
    LET u == updateReminder(localStorage, defaultReminders, reminder, writeFails, writeFails)
    IN  /\ localStorage' = u.ls
        /\ defaultReminders' = u.defaults
        /\ lastOp' = [Op("updateReminder", "", reminder.id, Some(reminder), FALSE, 0)
                         EXCEPT !.failed = IF writeFails THEN {"reminders"} ELSE {}]
        /\ UNCHANGED emitted
        /\ ReminderFrame

\* The list the settings view holds: the module's defaults array itself when
\* getReminders handed that out, a parsed copy otherwise.
settingsList(view, defaults) == IF view[1].alias THEN defaults ELSE view[1].list

\* ReminderSettings.loadData: setReminders(reminderService.getReminders())
loadData(ls, defaults, initFails) ==
    LET g == getReminders(ls, defaults, initFails)
    IN  [ls |-> g.ls,
         view |-> Some([alias |-> g.alias, list |-> IF g.alias THEN <<>> ELSE g.list])]

\* The settings view mounts (useEffect -> loadData).
SettingsMount(initFails) ==
    LET l == loadData(localStorage, defaultReminders, initFails)
    IN  /\ initFails => getItem(localStorage, REMINDER_STORAGE_KEY) = <<>>
        /\ localStorage' = l.ls
        /\ reminders' = l.view
        /\ lastOp' = [Op("loadData", "", "", <<>>, FALSE, 0)
                         EXCEPT !.failed = IF initFails THEN {"init"} ELSE {}]
        /\ UNCHANGED <<backup, activities, outside, now, defaultReminders, emitted>>

\* A handler of the settings view changes the reminder it holds in place,
\* calls updateReminder with it and reloads.  Every storage write of the
\* handler fails or none does.
settingsUpdate(name, index, changed, writeFails) ==
    LET defaults1 == IF reminders[1].alias
                     THEN [defaultReminders EXCEPT ![index] = changed]
                     ELSE defaultReminders
        u == updateReminder(localStorage, defaults1, changed, writeFails, writeFails)
        l == loadData(u.ls, u.defaults, writeFails)
    IN  /\ localStorage' = l.ls
        /\ defaultReminders' = u.defaults
        /\ reminders' = l.view
        /\ lastOp' = [Op(name, "", changed.id, Some(changed), FALSE, 0)
                         EXCEPT !.failed = IF writeFails THEN {"reminders"} ELSE {}]
        /\ UNCHANGED <<backup, activities, outside, now, emitted>>

\* ReminderSettings.handleToggle(reminderId)
HandleToggle(reminderId, writeFails) ==
    /\ reminders # <<>>
    /\ LET list == settingsList(reminders, defaultReminders)
           index == findIndex(list, reminderId)
       IN  /\ index > 0
           /\ settingsUpdate("handleToggle", index,
                              [list[index] EXCEPT !.enabled = ~list[index].enabled],
                              writeFails)

\* ReminderSettings.handleIntervalChange(reminderId, days)
HandleIntervalChange(reminderId, days, writeFails) ==
    /\ reminders # <<>>
    /\ LET list == settingsList(reminders, defaultReminders)
           index == findIndex(list, reminderId)
       IN  /\ index > 0
           /\ settingsUpdate("handleIntervalChange", index,
                              [list[index] EXCEPT !.intervalDays = days], writeFails)

----------------------------------------------------------------------------
(* The sheet configuration and the sync as steps                           *)

\* What the sheet service leaves alone.
SheetFrame ==
    UNCHANGED <<backup, activities, tabs, now, defaultReminders, reminders, emitted>>

\* sheetsService.saveConfig(config); failAt names the write that throws.
SaveConfig(config, failAt) ==
    /\ localStorage' = saveConfig(localStorage, config, failAt)
    /\ lastOp' = Op("saveConfig", "", "", Some(config), failAt > 0, 0)
    /\ UNCHANGED <<syncCalls, scriptUrl, requests, spreadsheet>>
    /\ SheetFrame

\* sheetsService.clearConfig()
ClearConfig ==
    /\ localStorage' = clearConfig(localStorage)
    /\ lastOp' = Op("clearConfig", "", "", <<>>, FALSE, 0)
    /\ UNCHANGED <<syncCalls, scriptUrl, requests, spreadsheet>>
    /\ SheetFrame

\* sheetsService.syncActivity(activity) up to the settling of its promise.  A
\* request that meets "ok" has been handled by doPost; lastOp.ret is the error
\* thrown, lastOp.pre the number of requests sent before the call.
SyncActivity(activity, outcome) ==
    LET r == syncActivity(localStorage, scriptUrl, activity, outcome)
    IN  /\ syncCalls' = syncCalls \cup {activity.id}
        /\ requests' = requests \o r.sent
        /\ spreadsheet' = IF r.sent # <<>> /\ outcome = "ok"
                          THEN doPost(spreadsheet, r.sent[1].body).book
                          ELSE spreadsheet
        /\ lastOp' = [Op("syncActivity", "", activity.id, Some(activity),
                         r.error # "", Len(requests))
                         EXCEPT !.ret = r.error]
        /\ UNCHANGED <<localStorage, scriptUrl>>
        /\ SheetFrame

\* BackOffice.handleExport with the CSV format selected: the text handed to
\* the Blob of the download (lastOp.ret), none when exportToCSV returns ''.
HandleExportCSV ==
    /\ lastOp' = [Op("exportCSV", STORAGE_KEY_ACTIVITIES, "", <<>>, FALSE,
                     Len(storageService_getAll(localStorage)))
                     EXCEPT !.ret = exportToCSV(localStorage)]
    /\ UNCHANGED <<localStorage, backup, activities, outside, now, defaultReminders,
                   reminders, emitted>>

----------------------------------------------------------------------------
(* save() of the activity store in a tab, its read and its write as steps  *)

TabFrame ==
    UNCHANGED <<backup, activities, syncCalls, scriptUrl, requests, spreadsheet, now,
                defaultReminders, reminders, emitted>>

\* The tab enters save(): it reads the collection and builds the new array.
\* A tab runs one save() at a time; its script is not preempted.
TabBeginSave(tab, activity) ==
    /\ tabs[tab].saving = <<>>
    /\ tabs' = [tabs EXCEPT ![tab].saving =
                   Some([rec |-> activity,
                         read |-> getItem(localStorage, STORAGE_KEY_ACTIVITIES),
                         arr |-> tabSnapshot(localStorage, activity)])]
    /\ lastOp' = Op("save:read", STORAGE_KEY_ACTIVITIES, activity.id, Some(activity),
                    FALSE, Len(storageService_getAll(localStorage)))
    /\ UNCHANGED localStorage
    /\ TabFrame

\* The tab writes the array it built and save() returns.
TabEndSave(tab) ==
    /\ tabs[tab].saving # <<>>
    /\ localStorage' = setItem(localStorage, STORAGE_KEY_ACTIVITIES,
                               tabs[tab].saving[1].arr, FALSE)
    /\ tabs' = [tabs EXCEPT ![tab].saving = <<>>,
                            ![tab].saved = @ \cup {tabs[tab].saving[1].rec.id}]
    /\ lastOp' = Op("save:write", STORAGE_KEY_ACTIVITIES, tabs[tab].saving[1].rec.id,
                    Some(tabs[tab].saving[1].rec), FALSE,
                    Len(storageService_getAll(localStorage)))
    /\ TabFrame

----------------------------------------------------------------------------
(* Inputs of the store specification                                       *)

MaxDate == 2

ActivityIds == {"a1", "a2", "a3"}
TreeIds == {"t1", "t2"}
GrowthIds == {"g1", "g2"}

StoreActivities ==
    {Activity(id, "observe", d, Undefined) : id \in ActivityIds, d \in 1..MaxDate}

StoreTrees == {Tree("t1", c, Undefined) : c \in {1, 2}} \cup {Tree("t2", 1, Undefined)}

StoreGrowthRecords ==
    {GrowthRecord("g1", "t1", 1, h) : h \in {Undefined, Some(5)}}
        \cup {GrowthRecord("g2", "t1", 1, Undefined)}

\* The three stores driven through their service operations, every storage
\* write succeeding.
StoreNext ==
    \/ \E a \in StoreActivities : StorageSave(a, FALSE)
    \/ \E id \in ActivityIds : StorageDelete(id, FALSE)
    \/ StorageClearAll
    \/ \E t \in StoreTrees : TreeSave(t, FALSE)
    \/ \E id \in TreeIds : TreeDelete(id, FALSE)
    \/ \E g \in StoreGrowthRecords : GrowthSave(g, FALSE)
    \/ \E id \in GrowthIds : GrowthDelete(id, FALSE)

StoreSpec == Init /\ [][StoreNext]_vars

----------------------------------------------------------------------------
(* Handlers of the App component and of the settings view (BackOffice)     *)

\* save() of the store behind a storage key.
save(ls, key, rec, writeFails) ==
    IF key = STORAGE_KEY_ACTIVITIES THEN storageService_save(ls, rec, writeFails)
    ELSE IF key = STORAGE_KEY_TREES THEN treeService_save(ls, rec, writeFails)
    ELSE growthRecordService_save(ls, rec, writeFails)

\* recs.forEach(rec => service.save(rec)) inside a handler whose failAt-th
\* storage write fails (0: none does); done counts the writes made so far.
\* The first failing save throws out of the loop.
RECURSIVE saveEach(_, _, _, _, _)
saveEach(ls, key, recs, done, failAt) ==
    IF recs = <<>> THEN [ls |-> ls, done |-> done, threw |-> FALSE]
    ELSE IF done + 1 = failAt THEN [ls |-> ls, done |-> done + 1, threw |-> TRUE]
    ELSE saveEach(save(ls, key, Head(recs), FALSE), key, Tail(recs), done + 1, failAt)

\* trees.forEach(tree => treeService.delete(tree.id))
RECURSIVE deleteEach(_, _, _, _)
deleteEach(ls, trees, done, failAt) ==
    IF trees = <<>> THEN [ls |-> ls, done |-> done, threw |-> FALSE]
    ELSE IF done + 1 = failAt THEN [ls |-> ls, done |-> done + 1, threw |-> TRUE]
    ELSE deleteEach(treeService_delete(ls, Head(trees).id, FALSE), Tail(trees),
                    done + 1, failAt)

\* handleExport, JSON branch: the document written to the backup file.
handleExport_data(ls, t) ==
    [activities |-> JSON_stringify(storageService_getAll(ls)),
     trees |-> JSON_stringify(treeService_getAll(ls)),
     exportDate |-> t,
     version |-> "1.0.0"]

\* An import that stops after the activities.
handleImport_activitiesOnly(ls, data, failAt) ==
    saveEach(ls, STORAGE_KEY_ACTIVITIES, JSON_parse(data.activities), 0, failAt)

\* An import that goes on to the trees after a save of an activity threw.
handleImport_treesAnyway(ls, data, failAt) ==
    LET a == saveEach(ls, STORAGE_KEY_ACTIVITIES, JSON_parse(data.activities), 0, failAt)
        t == saveEach(a.ls, STORAGE_KEY_TREES, JSON_parse(data.trees), a.done, failAt)
    IN  [ls |-> t.ls, done |-> t.done, threw |-> a.threw \/ t.threw]

\* handleImport: every activity of the file is saved, then every tree; a
\* throwing save ends the import (the catch block only reports it).
handleImport_result(ls, data, failAt) ==
    LET a == saveEach(ls, STORAGE_KEY_ACTIVITIES, JSON_parse(data.activities), 0, failAt)
    IN  IF a.threw THEN a
        ELSE saveEach(a.ls, STORAGE_KEY_TREES, JSON_parse(data.trees), a.done, failAt)

\* handleClearAll once confirmed: clearAll(), then every tree is deleted.
handleClearAll_result(ls, failAt) ==
    LET cleared == storageService_clearAll(ls)
    IN  deleteEach(cleared, treeService_getAll(cleared), 0, failAt)

RecordCount(ls) == Len(storageService_getAll(ls)) + Len(treeService_getAll(ls))

\* App.handleSaveActivity: save, then reload the component's list.  A throwing
\* save leaves the handler before loadActivities().  No sync call is made.
HandleSaveActivity(activity, writeFails) ==
    /\ localStorage' = storageService_save(localStorage, activity, writeFails)
    /\ activities' = IF writeFails THEN activities
                     ELSE storageService_getAll(localStorage')
    /\ lastOp' = Op("handleSaveActivity", STORAGE_KEY_ACTIVITIES, activity.id,
                    Some(activity), writeFails,
                    Len(storageService_getAll(localStorage)))
    /\ UNCHANGED <<backup, outside, now, defaultReminders, reminders, emitted>>

\* A form that stamps createdAt anew on every submit.
handleSubmit_restamp(initialActivity, type, date, t) ==
    [id |-> IF initialActivity # <<>> THEN initialActivity[1].id
            ELSE "activity_" \o ToString(t),
     type |-> type, date |-> date, numericValue |-> Undefined,
     createdAt |-> t, updatedAt |-> t]

\* ActivityForm.handleSubmit at clock value t: the activity handed to onSave.
\* A form opened on a stored activity keeps its id and its createdAt (when
\* the activity has one); Date.now() and new Date() give the id of a new
\* activity, its createdAt and every updatedAt.
handleSubmit(initialActivity, type, date, t) ==
    [id |-> IF initialActivity # <<>> THEN initialActivity[1].id
            ELSE "activity_" \o ToString(t),
     type |-> type, date |-> date, numericValue |-> Undefined,
     createdAt |-> IF initialActivity # <<>> /\ "createdAt" \in DOMAIN initialActivity[1]
                   THEN initialActivity[1].createdAt ELSE t,
     updatedAt |-> t]

\* The activity form is submitted: new (no initial activity) or opened on an
\* activity of the list the App component holds; onSave is handleSaveActivity.
HandleSubmit(initialActivity, date) ==
    HandleSaveActivity(handleSubmit(initialActivity, "observe", date, now), FALSE)

\* App.handleDeleteActivity
HandleDeleteActivity(id, writeFails) ==
    /\ localStorage' = storageService_delete(localStorage, id, writeFails)
    /\ activities' = IF writeFails THEN activities
                     ELSE storageService_getAll(localStorage')
    /\ lastOp' = Op("handleDeleteActivity", STORAGE_KEY_ACTIVITIES, id, <<>>,
                    writeFails, Len(storageService_getAll(localStorage)))
    /\ UNCHANGED <<backup, outside, now, defaultReminders, reminders, emitted>>

\* BackOffice.handleExport with the JSON format selected.
HandleExportJSON ==
    /\ backup' = Some(handleExport_data(localStorage, now))
    /\ lastOp' = Op("export", "", "", <<>>, FALSE, RecordCount(localStorage))
    /\ UNCHANGED <<localStorage, activities, outside, now, defaultReminders,
                   reminders, emitted>>

\* BackOffice.handleImport of the backup file; the page reloads after an
\* import in which nothing threw, and the App component loads the
\* activities.  An error thrown by JSON.parse or by a save leaves the try
\* block at once and reaches the catch block of the handler, which logs it
\* and shows an alert: failed records that error, rec what the handler was
\* given and ret the number of storage writes attempted; the handler itself
\* returns normally (threw is FALSE).
HandleImport(failAt) ==
    /\ backup # <<>>
    /\ LET r == handleImport_result(localStorage, backup[1], failAt)
       IN  /\ failAt <= Len(backup[1].activities) + Len(backup[1].trees)
           /\ localStorage' = r.ls
           /\ activities' = IF r.threw THEN activities
                            ELSE storageService_getAll(r.ls)
           /\ lastOp' = [Op("import", "", "", Some([parses |-> TRUE, failAt |-> failAt]),
                            FALSE, RecordCount(localStorage))
                            EXCEPT !.failed = IF r.threw THEN {"save"} ELSE {},
                                   !.ret = Some(r.done)]
    /\ UNCHANGED <<backup, outside, now, defaultReminders, reminders, emitted>>

\* BackOffice.handleImport of a file whose text JSON.parse rejects: the
\* SyntaxError is caught like any other, nothing is saved, no reload.
HandleImportUnparseable ==
    /\ lastOp' = [Op("import", "", "", Some([parses |-> FALSE, failAt |-> 0]),
                     FALSE, RecordCount(localStorage))
                     EXCEPT !.failed = {"parse"}, !.ret = Some(0)]
    /\ UNCHANGED <<localStorage, backup, activities, outside, now, defaultReminders,
                   reminders, emitted>>

\* BackOffice.handleClearAll, confirmed; the page reloads when no delete threw.
HandleClearAll(failAt) ==
    /\ LET r == handleClearAll_result(localStorage, failAt)
       IN  /\ failAt <= Len(treeService_getAll(localStorage))
           /\ localStorage' = r.ls
           /\ activities' = IF r.threw THEN activities
                            ELSE storageService_getAll(r.ls)
           /\ lastOp' = Op("handleClearAll", "", "", <<>>, r.threw,
                           RecordCount(localStorage))
    /\ UNCHANGED <<backup, outside, now, defaultReminders, reminders, emitted>>

----------------------------------------------------------------------------
(* The App handlers, storage writes succeeding or failing                  *)

AppNext ==
    \/ \E a \in StoreActivities, f \in BOOLEAN : HandleSaveActivity(a, f)
    \/ \E id \in ActivityIds, f \in BOOLEAN : HandleDeleteActivity(id, f)

AppSpec == Init /\ [][AppNext]_vars

----------------------------------------------------------------------------
(* Backup and restore from the settings view, every storage write succeeding *)

BackupActivities ==
    {Activity("a1", "observe", d, Undefined) : d \in {1, 2}}
        \cup {Activity("a2", "harvest", 1, Some(0))}

BackupTrees ==
    {Tree("t1", c, Undefined) : c \in {1, 2}} \cup {Tree("t2", 1, Some("Typica"))}

BackupNext ==
    \/ \E a \in BackupActivities : HandleSaveActivity(a, FALSE)
    \/ \E id \in {"a1", "a2"} : HandleDeleteActivity(id, FALSE)
    \/ \E t \in BackupTrees : TreeSave(t, FALSE)
    \/ \E id \in TreeIds : TreeDelete(id, FALSE)
    \/ HandleExportJSON
    \/ HandleClearAll(0)
    \/ HandleImport(0)

BackupSpec == Init /\ [][BackupNext]_vars

----------------------------------------------------------------------------
(* The due rule: activities, the settings view, checks and the clock, every *)
(* storage write succeeding                                                 *)

MaxTicks == 2

MaxPending == 5

DueActivities ==
    {Activity("a1", "observe", 0, Undefined), Activity("a2", "observe", 1, Undefined)}

IntervalOptions == {7, 14}

DueReminders ==
    {Reminder("observe", "observe", d, e) : d \in IntervalOptions, e \in BOOLEAN}

DueNext ==
    \/ \E a \in DueActivities : StorageSave(a, FALSE)
    \/ \E id \in {"a1", "a2"} : StorageDelete(id, FALSE)
    \/ \E r \in DueReminders : UpdateReminder(r, FALSE)
    \/ (Len(getNotifications(localStorage)) < MaxPending
          /\ CheckReminders(FALSE, FALSE, FALSE))
    \/ (now < Now0 + MaxTicks /\ Tick)

DueSpec == Init /\ [][DueNext]_vars

----------------------------------------------------------------------------
(* The settings view: toggles and interval changes between checks           *)

MaxListed == 6

SettingsNext ==
    \/ SettingsMount(FALSE)
    \/ HandleToggle("observe", FALSE)
    \/ \E d \in IntervalOptions : HandleIntervalChange("observe", d, FALSE)
    \/ StorageSave(Activity("a2", "observe", 1, Undefined), FALSE)
    \/ StorageDelete("a2", FALSE)
    \/ (Len(getNotifications(localStorage)) < MaxListed
          /\ CheckReminders(FALSE, FALSE, FALSE))
    \/ (now < Now0 + MaxTicks /\ Tick)

SettingsSpec == Init /\ [][SettingsNext]_vars

----------------------------------------------------------------------------
(* The notification list: checks, additions, read marks and clearing with   *)
(* one old activity on record                                               *)

\* markAsRead is called with the id of the notification at the head of the
\* list.
MarkHeadAsRead ==
    /\ getNotifications(localStorage) # <<>>
    /\ MarkAsRead(getNotifications(localStorage)[1].id, FALSE)

NotifyNext ==
    \/ StorageSave(Activity("a1", "observe", 0, Undefined), FALSE)
    \/ (Len(getNotifications(localStorage)) < MaxPending
          /\ CheckReminders(FALSE, FALSE, FALSE))
    \/ (Len(getNotifications(localStorage)) < MaxPending
          /\ AddNotification("info", Undefined, FALSE))
    \/ MarkHeadAsRead
    \/ MarkAllAsRead(FALSE)
    \/ ClearNotifications(FALSE)
    \/ (now < Now0 + MaxTicks /\ Tick)

NotifySpec == Init /\ [][NotifyNext]_vars

----------------------------------------------------------------------------
(* Checks whose storage writes may fail                                     *)

FailNext ==
    \/ StorageSave(Activity("a1", "observe", 0, Undefined), FALSE)
    \/ \E initFails, notifFails, remFails \in BOOLEAN :
          /\ Len(getNotifications(localStorage)) < MaxPending
          /\ CheckReminders(initFails, notifFails, remFails)
    \/ Reload
    \/ (now < Now0 + MaxTicks /\ Tick)

FailSpec == Init /\ [][FailNext]_vars

----------------------------------------------------------------------------
(* Filling the notification list up to its cap: the clock is advanced once  *)
(* the list is full, checks run while the list is short or nearly full, and *)
(* read marks are set while the list is short                               *)

CapTicks == 1

MaxMarked == 1

CapNext ==
    \/ AddNotification("info", Undefined, FALSE)
    \/ (/\ \/ Len(getNotifications(localStorage)) < MaxPending
           \/ Len(getNotifications(localStorage)) >= MAX_NOTIFICATIONS - MaxPending
        /\ CheckReminders(FALSE, FALSE, FALSE))
    \/ (Len(getNotifications(localStorage)) <= MaxMarked /\ MarkHeadAsRead)
    \/ (Len(getNotifications(localStorage)) <= MaxMarked /\ MarkAllAsRead(FALSE))
    \/ ClearNotifications(FALSE)
    \/ (/\ now < Now0 + CapTicks
        /\ Len(getNotifications(localStorage)) = MAX_NOTIFICATIONS
        /\ Tick)

CapSpec == Init /\ [][CapNext]_vars

----------------------------------------------------------------------------
(* The sheet sync: builds with and without a script URL, configurations    *)
(* saved and cleared, activities synced                                     *)

MaxRequests == 2

ScriptUrls == {Undefined, Some(""), Some("https://script.example/exec")}

SyncConfigs ==
    { [spreadsheetId |-> SPREADSHEET_ID, sheetName |-> "Sheet1"],
      [spreadsheetId |-> SPREADSHEET_ID, sheetName |-> "BeanLog"],
      [spreadsheetId |-> "book2", sheetName |-> "Sheet1"],
      [spreadsheetId |-> "", sheetName |-> "BeanLog"],
      [spreadsheetId |-> SPREADSHEET_ID, sheetName |-> ""] }

\* An activity with every optional field absent, one with every optional
\* field present (a value and a temperature of 0, an empty ripeness), and one
\* with a weather record without humidity.
SyncActivities ==
    { [id |-> "a1", type |-> "observe", date |-> 3, description |-> "note",
       photos |-> <<>>, createdAt |-> "c1", updatedAt |-> "u1"],
      [id |-> "a2", type |-> "harvest", date |-> 4, description |-> "picked",
       treeId |-> Some("T-1"), numericValue |-> Some(0), numericUnit |-> Some("kg"),
       photos |-> <<"photo">>,
       weather |-> Some([condition |-> "sunny", temperature |-> 0,
                         humidity |-> Some(60)]),
       aiDiagnosis |-> Some([disease |-> Some("rust"), pest |-> Some("borer"),
                             ripeness |-> Some(""), advice |-> "water"]),
       createdAt |-> "c2", updatedAt |-> "u2"],
      [id |-> "a3", type |-> "fertilize", date |-> 5, description |-> "",
       numericValue |-> Some(12), photos |-> <<>>,
       weather |-> Some([condition |-> "rainy", temperature |-> 25]),
       createdAt |-> "c3", updatedAt |-> "u3"] }

SyncInit ==
    /\ localStorage = [k \in {STORAGE_KEY_ACTIVITIES, STORAGE_KEY_TREES,
                               STORAGE_KEY_GROWTH, REMINDER_STORAGE_KEY,
                               NOTIFICATION_STORAGE_KEY, STORAGE_KEY_SHEET_ID,
                               STORAGE_KEY_SHEET_NAME} |-> <<>>]
    /\ backup = <<>>
    /\ activities = <<>>
    /\ syncCalls = {}
    /\ scriptUrl \in ScriptUrls
    /\ requests = <<>>
    /\ spreadsheet = [n \in SheetNames |-> IF n = "Sheet1" THEN Some(<<>>) ELSE <<>>]
    /\ tabs = [t \in Tabs |-> IdleTab]
    /\ now = Now0
    /\ defaultReminders = defaultReminders0
    /\ reminders = <<>>
    /\ emitted = NoneEmitted
    /\ lastOp = NoOp

SyncNext ==
    \/ \E c \in SyncConfigs, failAt \in 0..2 : SaveConfig(c, failAt)
    \/ ClearConfig
    \/ \E a \in SyncActivities, outcome \in {"ok", "status", "network"} :
          Len(requests) < MaxRequests /\ SyncActivity(a, outcome)

SyncSpec == SyncInit /\ [][SyncNext]_vars

----------------------------------------------------------------------------
(* The delimited-text export of activities whose texts hold commas, double  *)
(* quotes and line breaks                                                   *)

CsvActivities ==
    { [id |-> "a1", type |-> "observe", date |-> 1, description |-> <<"note">>,
       photos |-> <<>>, createdAt |-> "c1"],
      [id |-> "a1", type |-> "observe", date |-> 4, description |-> <<>>,
       photos |-> <<>>, createdAt |-> "c1"],
      [id |-> "a2", type |-> "harvest", date |-> 2,
       treeId |-> Some(<<"T", COMMA, "1">>),
       description |-> <<"wet", COMMA, "cold">>,
       numericValue |-> Some(0), numericUnit |-> Some(<<"kg">>),
       photos |-> <<"photo">>,
       weather |-> Some([condition |-> "sunny", temperature |-> 0]),
       aiDiagnosis |-> Some([advice |-> <<"water", COMMA, "shade">>]),
       createdAt |-> "c2"],
      [id |-> "a3", type |-> "observe", date |-> 3,
       description |-> <<"line1", LF, "line2">>,
       photos |-> <<>>, createdAt |-> "c3"],
      [id |-> "a3", type |-> "observe", date |-> 3,
       treeId |-> Some(<<"T", QUOTE, COMMA, QUOTE, "2">>),
       description |-> <<"say ", QUOTE, "hi", QUOTE>>,
       photos |-> <<>>, createdAt |-> "c3"] }

CsvNext ==
    \/ \E a \in CsvActivities : StorageSave(a, FALSE)
    \/ \E id \in ActivityIds : StorageDelete(id, FALSE)
    \/ HandleExportCSV

CsvSpec == Init /\ [][CsvNext]_vars

----------------------------------------------------------------------------
(* Imports that fail: a storage write that throws, or a file that does not  *)
(* parse                                                                    *)

MaxImportWrites == 4

ImportNext ==
    \/ \E a \in BackupActivities : HandleSaveActivity(a, FALSE)
    \/ \E t \in BackupTrees : TreeSave(t, FALSE)
    \/ HandleExportJSON
    \/ HandleClearAll(0)
    \/ \E failAt \in 0..MaxImportWrites : HandleImport(failAt)
    \/ HandleImportUnparseable

ImportSpec == Init /\ [][ImportNext]_vars

----------------------------------------------------------------------------
(* The activity form: new activities, edits, deletions, backups and the     *)
(* clock                                                                    *)

MaxFormTicks == 2

MaxFormRecords == 2

FormNext ==
    \/ \E d \in 1..MaxDate :
          /\ Len(storageService_getAll(localStorage)) < MaxFormRecords
          /\ HandleSubmit(Undefined, d)
    \/ \E i \in 1..Len(activities), d \in 1..MaxDate :
          HandleSubmit(Some(activities[i]), d)
    \/ \E i \in 1..Len(activities) : HandleDeleteActivity(activities[i].id, FALSE)
    \/ HandleExportJSON
    \/ HandleImport(0)
    \/ (now < Now0 + MaxFormTicks /\ Tick)

FormSpec == Init /\ [][FormNext]_vars

----------------------------------------------------------------------------
(* Deletions and "delete all data" among records that refer to trees, with *)
(* reminders and notifications stored                                       *)

CascadeNext ==
    \/ \E id \in {"a1", "a2"}, code \in {1, 2} :
          StorageSave([id |-> id, type |-> "observe", date |-> 1, treeId |-> code], FALSE)
    \/ \E id \in {"a1", "a2"} : StorageDelete(id, FALSE)
    \/ \E t \in StoreTrees : TreeSave(t, FALSE)
    \/ \E id \in TreeIds : TreeDelete(id, FALSE)
    \/ \E g \in StoreGrowthRecords : GrowthSave(g, FALSE)
    \/ (getNotifications(localStorage) = <<>> /\ CheckReminders(FALSE, FALSE, FALSE))
    \/ HandleClearAll(0)

CascadeSpec == Init /\ [][CascadeNext]_vars

----------------------------------------------------------------------------
(* Trees whose codes may coincide                                           *)

TreeCodeNext ==
    \/ \E id \in TreeIds, code \in {1, 2}, name \in {Undefined, Some("Typica")} :
          TreeSave(Tree(id, code, name), FALSE)
    \/ \E id \in TreeIds : TreeDelete(id, FALSE)

TreeCodeSpec == Init /\ [][TreeCodeNext]_vars

----------------------------------------------------------------------------
(* Repeated checks: activities are recorded first, then only checks run and *)
(* the clock advances                                                       *)

RepeatNext ==
    \/ \E a \in StoreActivities :
          lastOp.op \in {"init", "save"} /\ StorageSave(a, FALSE)
    \/ (Len(getNotifications(localStorage)) < MaxListed
          /\ CheckReminders(FALSE, FALSE, FALSE))
    \/ (now < Now0 + MaxTicks /\ Tick)

RepeatSpec == Init /\ [][RepeatNext]_vars

----------------------------------------------------------------------------
(* Two tabs saving activities                                               *)

TabNext ==
    \/ \E t \in Tabs, a \in BackupActivities : TabBeginSave(t, a)
    \/ \E t \in Tabs : TabEndSave(t)

TabSpec == Init /\ [][TabNext]_vars

----------------------------------------------------------------------------
(* The three stores with storage writes that may fail                       *)

FailingStoreNext ==
    \/ \E a \in BackupActivities, f \in BOOLEAN : StorageSave(a, f)
    \/ \E id \in {"a1", "a2"}, f \in BOOLEAN : StorageDelete(id, f)
    \/ \E t \in BackupTrees, f \in BOOLEAN : TreeSave(t, f)
    \/ \E id \in TreeIds, f \in BOOLEAN : TreeDelete(id, f)
    \/ \E g \in StoreGrowthRecords, f \in BOOLEAN : GrowthSave(g, f)
    \/ \E id \in GrowthIds, f \in BOOLEAN : GrowthDelete(id, f)

FailingStoreSpec == Init /\ [][FailingStoreNext]_vars

----------------------------------------------------------------------------
(* Properties of the record stores                                         *)

StoreKeys == {STORAGE_KEY_ACTIVITIES, STORAGE_KEY_TREES, STORAGE_KEY_GROWTH}

NoDuplicateIds(arr) ==
    \A i, j \in 1..Len(arr) : i # j => arr[i].id # arr[j].id

\* C1: no two stored records of a collection share an id, and right after a
\* save(r) that returned, the collection holds exactly one record with r.id
\* and that record reads as r on every field (a save of a stored id replaces).
C1_UpsertById ==
    /\ \A key \in StoreKeys : NoDuplicateIds(getAll(localStorage, key))
    /\ (lastOp.op = "save" /\ ~lastOp.threw) =>
          LET arr == getAll(localStorage, lastOp.key)
              at == {i \in 1..Len(arr) : arr[i].id = lastOp.id}
          IN  /\ Cardinality(at) = 1
              /\ \A i \in at : SameFields(arr[i], lastOp.rec[1])

\* A save replaced a stored growth record by one whose height is undefined,
\* with a second record in the collection.
C1_Witness ==
    /\ lastOp.op = "save" /\ lastOp.key = STORAGE_KEY_GROWTH /\ ~lastOp.threw
    /\ lastOp.pre = 2
    /\ Len(growthRecordService_getAll(localStorage)) = 2
    /\ lastOp.rec[1].height = Undefined

\* C2: a delete(id) leaves exactly the records with another id, unchanged and
\* in their order; when no record has the id it does not throw and the
\* collection is the same sequence as before.
C2_DeleteById ==
    [][lastOp'.op = "delete" =>
         LET before == getAll(localStorage, lastOp'.key)
             after == getAll(localStorage', lastOp'.key)
         IN  /\ \A i \in 1..Len(after) : after[i].id # lastOp'.id
             /\ after = SelectSeq(before, LAMBDA x : x.id # lastOp'.id)
             /\ (\A i \in 1..Len(before) : before[i].id # lastOp'.id) =>
                   (~lastOp'.threw /\ after = before)]_vars

\* A delete took one activity out of three.
C2_Witness ==
    /\ lastOp.op = "delete" /\ lastOp.key = STORAGE_KEY_ACTIVITIES
    /\ lastOp.pre = 3
    /\ Len(storageService_getAll(localStorage)) = 2

\* C3: after clearAll() the activity collection reads empty, and a save(r)
\* that follows it leaves a collection holding r alone.
C3_ClearAll ==
    /\ [](lastOp.op = "clearAll" => storageService_getAll(localStorage) = <<>>)
    /\ [][(lastOp.op = "clearAll" /\ lastOp'.op = "save"
            /\ lastOp'.key = STORAGE_KEY_ACTIVITIES /\ ~lastOp'.threw) =>
              LET after == storageService_getAll(localStorage')
              IN  Len(after) = 1 /\ SameFields(after[1], lastOp'.rec[1])]_vars

\* clearAll() ran on a collection of three activities.
C3_Witness ==
    /\ lastOp.op = "clearAll" /\ lastOp.pre = 3
    /\ getItem(localStorage, STORAGE_KEY_ACTIVITIES) = <<>>

----------------------------------------------------------------------------
(* Backup round trip and the save flow                                     *)

AsSet(arr) == {arr[i] : i \in 1..Len(arr)}

\* C4: the JSON export holds the activity and tree collections as stored, and
\* importing that file into cleared collections restores records with the
\* same ids and the same field values.
C4_BackupRoundTrip ==
    /\ lastOp.op = "export" =>
          /\ JSON_parse(backup[1].activities) = storageService_getAll(localStorage)
          /\ JSON_parse(backup[1].trees) = treeService_getAll(localStorage)
    /\ (lastOp.op = "import" /\ lastOp.failed = {} /\ lastOp.pre = 0) =>
          /\ AsSet(storageService_getAll(localStorage)) = AsSet(JSON_parse(backup[1].activities))
          /\ AsSet(treeService_getAll(localStorage)) = AsSet(JSON_parse(backup[1].trees))
          /\ Len(storageService_getAll(localStorage)) = Len(backup[1].activities)
          /\ Len(treeService_getAll(localStorage)) = Len(backup[1].trees)

\* A backup of two activities and two trees, one with and one without a
\* name, was imported into empty collections.
C4_Witness ==
    /\ lastOp.op = "import" /\ lastOp.failed = {} /\ lastOp.pre = 0
    /\ Len(storageService_getAll(localStorage)) = 2
    /\ Len(treeService_getAll(localStorage)) = 2
    /\ \E i \in 1..2 : "name" \notin DOMAIN treeService_getAll(localStorage)[i]

\* C5: once the save handler of the App component has run for an activity, a
\* syncActivity invocation for that activity has been issued.
C5_SaveIssuesSync ==
    lastOp.op = "handleSaveActivity" => lastOp.id \in syncCalls

----------------------------------------------------------------------------
(* Properties of the reminder engine                                       *)

\* The reminder list a call of getReminders returns in a state.
RemindersOf(ls, defaults) == getReminders(ls, defaults, FALSE).list

\* The reminder notifications of a pass that name the reminder.
EmittedFor(ret, reminder) ==
    {i \in 1..Len(ret) : ret[i].type = "reminder" /\ ret[i].id[3] = reminder.id
                           /\ ret[i].activityType = Some(reminder.type)}

\* Due: no activity of the reminder's type, or the latest one is at least
\* intervalDays whole days old.
Due(acts, reminder, t) ==
    LET mine == {i \in 1..Len(acts) : acts[i].type = reminder.type}
    IN  \/ mine = {}
        \/ \E i \in mine :
              /\ \A j \in mine : acts[j].date <= acts[i].date
              /\ (t - acts[i].date) \div HalfDaysPerDay >= reminder.intervalDays

\* C6: in one checkReminders pass every reminder that is enabled and was not
\* notified today produces exactly one reminder notification when it is due
\* (no activity of its type, or the latest one at least intervalDays whole
\* days old) and none when it is not; a disabled reminder produces none and
\* keeps its lastNotified.
C6_DueRule ==
    [][lastOp'.op = "checkReminders" =>
         LET acts == storageService_getAll(localStorage)
             before == RemindersOf(localStorage, defaultReminders)
             after == RemindersOf(localStorage', defaultReminders')
         IN  /\ Len(after) = Len(before)
             /\ \A i \in 1..Len(before) :
                   LET r == before[i]
                       n == Cardinality(EmittedFor(lastOp'.ret, r))
                   IN  /\ (r.enabled /\ Field(r, "lastNotified") # Some(today(now)))
                            => n = (IF Due(acts, r, now) THEN 1 ELSE 0)
                       /\ ~r.enabled
                            => /\ n = 0
                               /\ Field(after[i], "lastNotified") = Field(r, "lastNotified")]_vars

\* A pass has emitted the observe reminder while the latest observe activity
\* is exactly intervalDays whole days old.
C6_Witness ==
    /\ lastOp.op = "checkReminders"
    /\ LET acts == storageService_getAll(localStorage)
           list == RemindersOf(localStorage, defaultReminders)
       IN  /\ acts # <<>>
           /\ \E i \in 1..Len(list) :
                 /\ list[i].type = "observe"
                 /\ list[i].enabled
                 /\ EmittedFor(lastOp.ret, list[i]) # {}
                 /\ daysSince(now, sort(acts, STORAGE_KEY_ACTIVITIES)[1].date)
                      = list[i].intervalDays

\* C7: on one calendar day at most one reminder notification is emitted for
\* a reminder, whatever checks, activity saves and deletes, toggles and
\* interval changes are interleaved.
C7_OncePerDay == \A k \in EmissionKinds \ {"inactivity"} : emitted[k] <= 1

\* C8: on one calendar day at most one inactivity notification is emitted,
\* whatever checks, additions, read marks and clearings of the notification
\* list are interleaved.
C8_InactivityOncePerDay == emitted["inactivity"] <= 1

\* createdAt never increases along the list.
NewestFirst(list) ==
    \A i \in 1..(Len(list) - 1) : list[i].createdAt >= list[i + 1].createdAt

LastNotifiedOf(ls, defaults) ==
    LET list == RemindersOf(ls, defaults)
    IN  [i \in 1..Len(list) |-> Field(list[i], "lastNotified")]

\* C10: a checkReminders pass whose write of the notification list or of the
\* reminder list fails changes neither the stored notification list nor the
\* lastNotified of any reminder.
C10_FailedPassIsNoOp ==
    [][(/\ lastOp'.op = "checkReminders"
        /\ lastOp'.failed \cap {"notifications", "reminders"} # {}) =>
          /\ getNotifications(localStorage') = getNotifications(localStorage)
          /\ LastNotifiedOf(localStorage', defaultReminders')
               = LastNotifiedOf(localStorage, defaultReminders)]_vars

----------------------------------------------------------------------------
(* Failing writes, the sheet sync and the exports                          *)

\* C11: a save or delete of one of the three stores whose storage write
\* fails throws, and afterwards every store reads what it read before the
\* call.
C11_FailedWriteKeepsStore ==
    [][(lastOp'.op \in {"save", "delete"} /\ lastOp'.threw) =>
          /\ lastOp'.key \in StoreKeys
          /\ \A k \in StoreKeys : getAll(localStorage', k) = getAll(localStorage, k)
          /\ localStorage' = localStorage]_vars

\* A save of a changed record failed on a store that holds the record's id,
\* and a delete of a stored id failed.
C11_Witness ==
    /\ lastOp.threw
    /\ \/ /\ lastOp.op = "save"
          /\ \E i \in 1..Len(getAll(localStorage, lastOp.key)) :
                /\ getAll(localStorage, lastOp.key)[i].id = lastOp.id
                /\ ~SameFields(getAll(localStorage, lastOp.key)[i], lastOp.rec[1])
       \/ /\ lastOp.op = "delete"
          /\ lastOp.id \in Ids(getAll(localStorage, lastOp.key))

\* C12: syncActivity throws a configuration error and sends no request when
\* the stored spreadsheet id or sheet name is missing or empty or the build
\* has no script URL; it sends a request only when all of them are present.
C12_ConfigError ==
    [][lastOp'.op = "syncActivity" =>
         LET id == localStorage[STORAGE_KEY_SHEET_ID]
             name == localStorage[STORAGE_KEY_SHEET_NAME]
             present == /\ id \notin {<<>>, <<"">>}
                        /\ name \notin {<<>>, <<"">>}
                        /\ scriptUrl \notin {<<>>, <<"">>}
         IN  IF present
             THEN Len(requests') > Len(requests) /\ lastOp'.ret \notin {"config", "url"}
             ELSE /\ requests' = requests
                  /\ spreadsheet' = spreadsheet
                  /\ lastOp'.threw
                  /\ lastOp'.ret \in {"config", "url"}]_vars

\* A sync has thrown the configuration error in a build that has a script
\* URL, with a spreadsheet id stored and the sheet name missing or empty.
C12_Witness ==
    /\ lastOp.op = "syncActivity"
    /\ lastOp.threw
    /\ lastOp.ret = "config"
    /\ scriptUrl \notin {<<>>, <<"">>}
    /\ localStorage[STORAGE_KEY_SHEET_ID] \notin {<<>>, <<"">>}

\* C13: with the configuration and the script URL present, a syncActivity call
\* sends exactly one POST carrying action "append", the stored spreadsheet id
\* and sheet name and the row of the activity; it throws exactly when the
\* response is not a success or the call fails, and sends nothing more.
C13_OnePost ==
    [][(/\ lastOp'.op = "syncActivity"
        /\ getConfig(localStorage) # <<>>
        /\ scriptUrl \notin {<<>>, <<"">>}) =>
          /\ Len(requests') = Len(requests) + 1
          /\ SubSeq(requests', 1, Len(requests)) = requests
          /\ LET sent == requests'[Len(requests')]
             IN  /\ sent.method = "POST"
                 /\ sent.url = scriptUrl[1]
                 /\ sent.body.action = "append"
                 /\ sent.body.spreadsheetId = localStorage[STORAGE_KEY_SHEET_ID][1]
                 /\ sent.body.sheetName = localStorage[STORAGE_KEY_SHEET_NAME][1]
                 /\ sent.body.row = activityToRow(lastOp'.rec[1])
          /\ lastOp'.threw <=> lastOp'.ret \in {"status", "network"}
          /\ lastOp'.ret \in {"", "status", "network"}]_vars

\* A sync that met a response without success status has thrown after
\* sending its one request.
C13_Witness ==
    /\ lastOp.op = "syncActivity"
    /\ lastOp.threw
    /\ lastOp.ret = "status"
    /\ Len(requests) = lastOp.pre + 1

\* The cell of an optional text: the text, or "" when it is absent.
CellOf(opt) == IF opt = <<>> THEN "" ELSE opt[1]

\* C14: the row sent for an activity has exactly 18 cells in the fixed order;
\* the cell of an absent optional field is "", no cell reads "undefined" or
\* "null", and a present value of 0 is rendered "0".
C14_RowMapping ==
    (lastOp.op = "syncActivity" /\ Len(requests) > lastOp.pre) =>
        LET a == lastOp.rec[1]
            row == requests[Len(requests)].body.row
            weather == Field(a, "weather")
            ai == Field(a, "aiDiagnosis")
        IN  /\ Len(row) = 18
            /\ \A i \in 1..Len(row) : row[i] \notin {"undefined", "null"}
            /\ row[1] = a.id /\ row[2] = a.type /\ row[6] = a.description
            /\ row[3] = ToString(a.date \div HalfDaysPerDay)
            /\ row[4] = ToString(a.date % HalfDaysPerDay)
            /\ row[5] = CellOf(Field(a, "treeId"))
            /\ Field(a, "numericValue") = <<>> => row[7] = ""
            /\ Field(a, "numericValue") = <<0>> => row[7] = "0"
            /\ Field(a, "numericValue") = <<12>> => row[7] = "12"
            /\ row[8] = CellOf(Field(a, "numericUnit"))
            /\ row[9] = ToString(Len(a.photos))
            /\ weather = <<>> => row[10] = "" /\ row[11] = "" /\ row[12] = ""
            /\ weather # <<>> =>
                  /\ row[10] = weather[1].condition
                  /\ row[11] = ToString(weather[1].temperature)
                  /\ Field(weather[1], "humidity") = <<>> => row[12] = ""
                  /\ Field(weather[1], "humidity") = <<60>> => row[12] = "60"
            /\ ai = <<>> => \A i \in 13..16 : row[i] = ""
            /\ ai # <<>> =>
                  /\ row[13] = CellOf(Field(ai[1], "disease"))
                  /\ row[14] = CellOf(Field(ai[1], "pest"))
                  /\ row[15] = CellOf(Field(ai[1], "ripeness"))
                  /\ row[16] = ai[1].advice
            /\ row[17] = a.createdAt /\ row[18] = a.updatedAt

\* Two rows have been sent: one of an activity without optional fields and
\* one of an activity whose value is 0.
C14_Witness ==
    /\ Len(requests) = 2
    /\ requests[1].body.row[7] = "" /\ requests[1].body.row[5] = ""
    /\ requests[1].body.row[10] = "" /\ requests[1].body.row[16] = ""
    /\ requests[2].body.row[7] = "0"
    /\ lastOp.op = "syncActivity"

\* C15: every sheet that has received an append, whether it existed before
\* or was created by the endpoint, starts with the header row, followed by
\* the appended rows, and holds the header row exactly once.
C15_HeaderFirst ==
    \A n \in SheetNames :
        (spreadsheet[n] # <<>> /\ spreadsheet[n][1] # <<>>) =>
            LET rows == spreadsheet[n][1]
            IN  /\ rows[1] = HEADERS
                /\ Len(rows) >= 2
                /\ \A i \in 2..Len(rows) : rows[i] # HEADERS

\* The lines of a text: its pieces between line breaks.
RECURSIVE LinesOf(_)
LinesOf(text) ==
    IF \A i \in 1..Len(text) : text[i] # LF THEN <<text>>
    ELSE LET k == CHOOSE i \in 1..Len(text) :
                     text[i] = LF /\ \A j \in 1..(i - 1) : text[j] # LF
         IN  <<SubSeq(text, 1, k - 1)>> \o LinesOf(SubSeq(text, k + 1, Len(text)))

\* The number of fields of a line: one more than its commas outside double
\* quotes.
FieldCount(line) ==
    1 + Cardinality({i \in 1..Len(line) :
            /\ line[i] = COMMA
            /\ Cardinality({j \in 1..(i - 1) : line[j] = QUOTE}) % 2 = 0})

\* C16: exportToCSV returns '' for an empty store and, for N >= 1 stored
\* activities, a text of exactly N + 1 lines whose data lines have exactly 12
\* fields each, whatever the stored texts contain.
C16_ExportSize ==
    lastOp.op = "exportCSV" =>
        LET N == Len(storageService_getAll(localStorage))
            lines == LinesOf(lastOp.ret)
        IN  IF N = 0 THEN lastOp.ret = <<>>
            ELSE /\ Len(lines) = N + 1
                 /\ \A i \in 2..Len(lines) : FieldCount(lines[i]) = 12

\* C17: the text exported for a non-empty store begins with the byte-order
\* mark, and every field of every line, the header line included, is enclosed
\* in double quotes.
C17_ExportFormat ==
    (lastOp.op = "exportCSV" /\ storageService_getAll(localStorage) # <<>>) =>
        /\ lastOp.ret[1] = BOM
        /\ \A i \in 1..Len(LinesOf(Tail(lastOp.ret))) :
              LET line == LinesOf(Tail(lastOp.ret))[i]
              IN  /\ line # <<>>
                  /\ line[1] = QUOTE
                  /\ line[Len(line)] = QUOTE
                  /\ \A k \in 1..Len(line) :
                        (line[k] = COMMA
                           /\ Cardinality({j \in 1..(k - 1) : line[j] = QUOTE}) % 2 = 0)
                        => (line[k - 1] = QUOTE /\ line[k + 1] = QUOTE)

\* C18: whatever saves, deletes, clearings and imports have been made, the
\* stored activities are ordered by date descending and the stored trees by
\* code ascending.
C18_SortInvariant ==
    /\ \A i \in 1..(Len(storageService_getAll(localStorage)) - 1) :
          storageService_getAll(localStorage)[i].date
             >= storageService_getAll(localStorage)[i + 1].date
    /\ \A i \in 1..(Len(treeService_getAll(localStorage)) - 1) :
          treeService_getAll(localStorage)[i].treeId
             <= treeService_getAll(localStorage)[i + 1].treeId

\* A save has replaced a stored activity, which now stands first with a
\* later date than the next one, while the trees stand in strictly ascending
\* code order with the tree saved first standing last.
C18_Witness ==
    /\ lastOp.op = "handleSaveActivity"
    /\ lastOp.pre = 2
    /\ Len(storageService_getAll(localStorage)) = 2
    /\ storageService_getAll(localStorage)[1].id = lastOp.id
    /\ storageService_getAll(localStorage)[1].date
          > storageService_getAll(localStorage)[2].date
    /\ Len(treeService_getAll(localStorage)) = 2
    /\ treeService_getAll(localStorage)[1].id = "t2"
    /\ treeService_getAll(localStorage)[1].treeId
          < treeService_getAll(localStorage)[2].treeId

\* The ids whose save() has returned in some tab.
SavedIds == UNION {tabs[t].saved : t \in Tabs}

\* C19: a save() whose read and write are not separated by a write of
\* another context keeps every stored record and adds its own, and as long as
\* a single tab is saving no record whose save() returned is missing from
\* the collection (with two tabs a record can be lost: the witness).
C19_LostUpdate ==
    /\ [](\A t \in Tabs :
            (\A u \in Tabs \ {t} : tabs[u] = IdleTab)
               => tabs[t].saved \subseteq Ids(storageService_getAll(localStorage)))
    /\ [][\A t \in Tabs :
            (/\ tabs[t].saving # <<>>
             /\ tabs'[t].saving = <<>>
             /\ tabs[t].saving[1].read = getItem(localStorage, STORAGE_KEY_ACTIVITIES))
               => Ids(storageService_getAll(localStorage'))
                     = Ids(storageService_getAll(localStorage))
                          \cup {tabs[t].saving[1].rec.id}]_vars

\* Both tabs have returned from a save() without error, no save() is under
\* way, and the collection lacks a record that was saved.
C19_Witness ==
    /\ \A t \in Tabs : tabs[t].saving = <<>> /\ tabs[t].saved # {}
    /\ ~lastOp.threw
    /\ ~(SavedIds \subseteq Ids(storageService_getAll(localStorage)))

\* The record stored under an id, if any.
Stored(ls, key, id) ==
    LET arr == getAll(ls, key)
    IN  IF id \in Ids(arr) THEN Some(arr[findIndex(arr, id)]) ELSE Undefined

\* The entries of a backup document in the order handleImport saves them,
\* each with the key of its store.
EntriesOf(data) ==
    [i \in 1..Len(data.activities) |->
        [key |-> STORAGE_KEY_ACTIVITIES, rec |-> JSON_parse(data.activities)[i]]]
    \o [i \in 1..Len(data.trees) |->
        [key |-> STORAGE_KEY_TREES, rec |-> JSON_parse(data.trees)[i]]]

\* An import that failed at its k-th entry left every entry before it saved
\* and every entry from it on as it was stored before the import.
AbortedAt(ls, ls2, entries, k) ==
    /\ \A i \in 1..(k - 1) :
          Stored(ls2, entries[i].key, entries[i].rec.id) = Some(entries[i].rec)
    /\ \A i \in k..Len(entries) :
          Stored(ls2, entries[i].key, entries[i].rec.id)
             = Stored(ls, entries[i].key, entries[i].rec.id)

----------------------------------------------------------------------------
(* Imports into a store that holds records, reminders, deletions           *)

\* The records of a backup document that go to the store of a key.
PayloadOf(data, key) ==
    IF key = STORAGE_KEY_ACTIVITIES THEN JSON_parse(data.activities)
    ELSE JSON_parse(data.trees)

\* C21: after an import in which nothing failed, the activity and the tree
\* collection each hold every record of the file with the file's values and
\* every record stored before whose id is not in the file, unchanged; the ids
\* stored are those stored before and those of the file, each once.
C21_ImportUpserts ==
    [][(lastOp'.op = "import" /\ lastOp'.failed = {}) =>
          \A key \in {STORAGE_KEY_ACTIVITIES, STORAGE_KEY_TREES} :
             LET P == PayloadOf(backup[1], key)
                 S == getAll(localStorage, key)
                 S2 == getAll(localStorage', key)
             IN  /\ \A i \in 1..Len(P) : Stored(localStorage', key, P[i].id) = Some(P[i])
                 /\ \A j \in 1..Len(S) :
                       S[j].id \notin Ids(P) =>
                          Stored(localStorage', key, S[j].id) = Some(S[j])
                 /\ Ids(S2) = Ids(S) \cup Ids(P)
                 /\ Len(S2) = Cardinality(Ids(S2))]_vars

\* A file of one activity was imported into a store of two activities: the
\* stored record of the file's id has the file's values and the other
\* activity is still stored.
C21_Witness ==
    /\ lastOp.op = "import" /\ lastOp.failed = {}
    /\ Len(backup[1].activities) = 1
    /\ Len(storageService_getAll(localStorage)) = 2
    /\ lastOp.pre = 2 + Len(treeService_getAll(localStorage))
    /\ Stored(localStorage, STORAGE_KEY_ACTIVITIES, backup[1].activities[1].id)
          = Some(backup[1].activities[1])

\* The activity types of a reminder list, each as often as it occurs.
TypesOnce(list) ==
    \A i, j \in 1..Len(list) : list[i].type = list[j].type => i = j

\* C22: the reminder list getReminders returns, and the stored list when
\* there is one, hold at most one reminder per activity type.
C22_OneReminderPerType ==
    /\ TypesOnce(RemindersOf(localStorage, defaultReminders))
    /\ getItem(localStorage, REMINDER_STORAGE_KEY) # <<>> =>
          TypesOnce(JSON_parse(getItem(localStorage, REMINDER_STORAGE_KEY)[1]))

\* The settings view has switched a reminder off after a pass of
\* checkReminders stamped reminders, and the stored list still has its five
\* reminders.
C22_Witness ==
    /\ lastOp.op = "handleToggle"
    /\ getItem(localStorage, REMINDER_STORAGE_KEY) # <<>>
    /\ LET list == RemindersOf(localStorage, defaultReminders)
       IN  /\ Len(list) = Len(defaultReminders0)
           /\ \E i \in 1..Len(list) : ~list[i].enabled
           /\ \E i \in 1..Len(list) : Field(list[i], "lastNotified") # Undefined

\* C23: a save of an activity id that is already stored (an edit through the
\* form, an import) leaves the createdAt of the stored record as it was, and
\* every stored activity has updatedAt >= createdAt.
C23_CreatedAtKept ==
    /\ [][\A id \in Ids(storageService_getAll(localStorage))
                      \cap Ids(storageService_getAll(localStorage')) :
             Stored(localStorage', STORAGE_KEY_ACTIVITIES, id)[1].createdAt
                = Stored(localStorage, STORAGE_KEY_ACTIVITIES, id)[1].createdAt]_vars
    /\ [](\A i \in 1..Len(storageService_getAll(localStorage)) :
             storageService_getAll(localStorage)[i].updatedAt
                >= storageService_getAll(localStorage)[i].createdAt)

\* An activity created earlier was edited through the form at a later clock
\* value.
C23_Witness ==
    /\ lastOp.op = "handleSaveActivity"
    /\ \E i \in 1..Len(storageService_getAll(localStorage)) :
          LET a == storageService_getAll(localStorage)[i]
          IN  a.id = lastOp.id /\ a.updatedAt = now /\ a.createdAt < now

\* C24: a delete of a tree or of an activity changes no stored item other
\* than that of its own collection: the activities, growth records,
\* reminders and notifications stay as they were when a tree is deleted, the
\* trees, growth records, reminders and notifications when an activity is.
C24_NoCascade ==
    [][(lastOp'.op = "delete" /\ lastOp'.key \in {STORAGE_KEY_TREES, STORAGE_KEY_ACTIVITIES}) =>
          /\ \A k \in (DOMAIN localStorage) \ {lastOp'.key} :
                getItem(localStorage', k) = getItem(localStorage, k)
          /\ Ids(getAll(localStorage', lastOp'.key))
                = Ids(getAll(localStorage, lastOp'.key)) \ {lastOp'.id}]_vars

\* Tree t1 of code 1 was deleted while an activity refers to code 1, growth
\* records refer to t1, and reminders and notifications are stored.
C24_Witness ==
    /\ lastOp.op = "delete" /\ lastOp.key = STORAGE_KEY_TREES /\ lastOp.id = "t1"
    /\ Len(treeService_getAll(localStorage)) = lastOp.pre - 1
    /\ \E i \in 1..Len(storageService_getAll(localStorage)) :
          storageService_getAll(localStorage)[i].treeId = 1
    /\ \E i \in 1..Len(growthRecordService_getAll(localStorage)) :
          growthRecordService_getAll(localStorage)[i].treeId = "t1"
    /\ getNotifications(localStorage) # <<>>
    /\ getItem(localStorage, REMINDER_STORAGE_KEY) # <<>>

\* A tree of another id with the code of the saved tree is stored.
CodeTaken(ls, tree) ==
    \E i \in 1..Len(treeService_getAll(ls)) :
       /\ treeService_getAll(ls)[i].treeId = tree.treeId
       /\ treeService_getAll(ls)[i].id # tree.id

\* The first stored tree of another id with the code of the given tree.
FirstOther(ls, tree) ==
    LET trees == treeService_getAll(ls)
        hits == {i \in 1..Len(trees) : trees[i].treeId = tree.treeId /\ trees[i].id # tree.id}
    IN  CHOOSE i \in hits : \A j \in hits : i <= j

\* C25 as stated: a save of a tree whose code a stored tree of another id
\* has succeeds, and getByTreeId of that code then returns the saved tree.
C25_LastWriteWins ==
    [][(/\ lastOp'.op = "save" /\ lastOp'.key = STORAGE_KEY_TREES
        /\ CodeTaken(localStorage, lastOp'.rec[1])) =>
          /\ ~lastOp'.threw
          /\ treeService_getByTreeId(localStorage', lastOp'.rec[1].treeId)
                = Some(JSON_stringifyObject(lastOp'.rec[1]))]_vars

\* C25, amended: a save of a tree whose code a stored tree of another id has
\* succeeds and both trees are stored; getByTreeId of that code then returns
\* the tree that stood first in the stored order: the tree that had the code
\* already when the saved tree is new or stood behind it, and the saved tree
\* only when it stood before every tree of that code.
C25_FirstStoredWins ==
    [][(/\ lastOp'.op = "save" /\ lastOp'.key = STORAGE_KEY_TREES
        /\ CodeTaken(localStorage, lastOp'.rec[1])) =>
          LET tree == lastOp'.rec[1]
              trees == treeService_getAll(localStorage)
              other == FirstOther(localStorage, tree)
              index == findIndex(trees, tree.id)
          IN  /\ ~lastOp'.threw
              /\ Ids(treeService_getAll(localStorage')) = Ids(trees) \cup {tree.id}
              /\ Stored(localStorage', STORAGE_KEY_TREES, trees[other].id) = Some(trees[other])
              /\ treeService_getByTreeId(localStorage', tree.treeId)
                    = IF index > 0 /\ index < other
                      THEN Some(JSON_stringifyObject(tree))
                      ELSE Some(trees[other])]_vars

\* Tree t2 was added with the code of the stored tree t1: both are stored and
\* the lookup by the code returns t1.
C25_Witness ==
    /\ lastOp.op = "save" /\ lastOp.key = STORAGE_KEY_TREES /\ lastOp.id = "t2"
    /\ Len(treeService_getAll(localStorage)) = 2 /\ lastOp.pre = 1
    /\ \A i \in 1..2 : treeService_getAll(localStorage)[i].treeId = lastOp.rec[1].treeId
    /\ treeService_getByTreeId(localStorage, lastOp.rec[1].treeId) # <<>>
    /\ treeService_getByTreeId(localStorage, lastOp.rec[1].treeId)[1].id = "t1"

\* The number of rows of a sheet; none when the sheet does not exist.
RowCount(book, name) == IF book[name] = <<>> THEN 0 ELSE Len(book[name][1])

\* C26: a syncActivity call that ends without error has had its row appended
\* by the endpoint: some sheet holds more rows than before the call.
C26_ResolvesOnlyIfAppended ==
    [][(lastOp'.op = "syncActivity" /\ lastOp'.ret = "") =>
          \E n \in SheetNames : RowCount(spreadsheet', n) > RowCount(spreadsheet, n)]_vars

\* C27: once "delete all data" has run, the activity, tree, growth-record and
\* notification collections are empty and no reminder carries a lastNotified
\* stamp.
C27_ClearAllEmptiesEverything ==
    (lastOp.op = "handleClearAll" /\ ~lastOp.threw) =>
       /\ storageService_getAll(localStorage) = <<>>
       /\ treeService_getAll(localStorage) = <<>>
       /\ growthRecordService_getAll(localStorage) = <<>>
       /\ getNotifications(localStorage) = <<>>
       /\ \A i \in 1..Len(RemindersOf(localStorage, defaultReminders)) :
             Field(RemindersOf(localStorage, defaultReminders)[i], "lastNotified") = Undefined

\* Some notification was emitted earlier on the current day.
EmittedToday == \E k \in EmissionKinds : emitted[k] > 0

\* C28 as stated: a checkReminders call on a day on which an earlier call
\* emitted, with no activity, reminder or notification changed since,
\* returns an empty list and leaves both stored lists as they were.
C28_IdempotentWithinDay ==
    [][(lastOp'.op = "checkReminders" /\ EmittedToday) =>
          /\ lastOp'.ret = <<>>
          /\ getNotifications(localStorage') = getNotifications(localStorage)
          /\ RemindersOf(localStorage', defaultReminders')
                = RemindersOf(localStorage, defaultReminders)]_vars

\* C28, amended: a checkReminders call that directly follows another, the
\* clock not having advanced, returns an empty list and leaves both stored
\* lists as they were; a call later on the same day, nothing else having
\* changed, returns no notification of a kind emitted earlier that day, and
\* leaves both lists as they were when it returns none.
C28_IdempotentAtSameTime ==
    /\ [][(lastOp.op = "checkReminders" /\ lastOp'.op = "checkReminders") =>
             /\ lastOp'.ret = <<>>
             /\ getNotifications(localStorage') = getNotifications(localStorage)
             /\ RemindersOf(localStorage', defaultReminders')
                   = RemindersOf(localStorage, defaultReminders)]_vars
    /\ [][lastOp'.op = "checkReminders" =>
             /\ \A i \in 1..Len(lastOp'.ret) : emitted[KindOf(lastOp'.ret[i])] = 0
             /\ lastOp'.ret = <<>> =>
                   /\ getNotifications(localStorage') = getNotifications(localStorage)
                   /\ RemindersOf(localStorage', defaultReminders')
                         = RemindersOf(localStorage, defaultReminders)]_vars

\* A call has directly followed a call that emitted notifications, and has
\* returned nothing.
C28_Witness ==
    /\ lastOp.op = "checkReminders" /\ lastOp.ret = <<>>
    /\ EmittedToday
    /\ lastOp.pre = Len(getNotifications(localStorage))
    /\ lastOp.pre > 0

\* C29: getConfig returns a configuration only with both parts non-empty; it
\* returns the configuration of a saveConfig call that did not throw, none
\* after clearConfig, and never a pair that no single saveConfig call was
\* given.
C29_ConfigIsAUnit ==
    /\ getConfig(localStorage) # <<>> =>
          /\ getConfig(localStorage)[1].spreadsheetId # ""
          /\ getConfig(localStorage)[1].sheetName # ""
          /\ getConfig(localStorage)[1] \in SyncConfigs
    /\ (/\ lastOp.op = "saveConfig" /\ ~lastOp.threw
        /\ lastOp.rec[1].spreadsheetId # "" /\ lastOp.rec[1].sheetName # "") =>
          getConfig(localStorage) = lastOp.rec
    /\ lastOp.op = "clearConfig" => getConfig(localStorage) = <<>>

\* C30: an update of a reminder (updateReminder, called by the handlers of
\* the settings view) leaves the reminder given in the place of the one of
\* its id (behind the others when there was none) and every other reminder
\* as it was; a checkReminders pass leaves the ids, types, intervals and
\* enabled flags of all reminders as they were and adds or removes none.
C30_ReminderFrame ==
    [][/\ lastOp'.op \in {"updateReminder", "handleToggle", "handleIntervalChange"} =>
             LET pre == RemindersOf(localStorage, defaultReminders)
                 post == RemindersOf(localStorage', defaultReminders')
                 known == \E i \in 1..Len(pre) : pre[i].id = lastOp'.id
             IN  /\ Len(post) = Len(pre) + (IF known THEN 0 ELSE 1)
                 /\ \A i \in 1..Len(pre) :
                       SameFields(post[i], IF pre[i].id = lastOp'.id
                                           THEN lastOp'.rec[1] ELSE pre[i])
                 /\ ~known => SameFields(post[Len(post)], lastOp'.rec[1])
       /\ lastOp'.op = "checkReminders" =>
             LET pre == RemindersOf(localStorage, defaultReminders)
                 post == RemindersOf(localStorage', defaultReminders')
             IN  /\ Len(post) = Len(pre)
                 /\ \A i \in 1..Len(pre) :
                       /\ post[i].id = pre[i].id
                       /\ post[i].type = pre[i].type
                       /\ post[i].intervalDays = pre[i].intervalDays
                       /\ post[i].enabled = pre[i].enabled]_vars

\* The settings view has changed the interval of one reminder while other
\* reminders carry the stamp of a pass.
C30_Witness ==
    /\ lastOp.op = "handleIntervalChange"
    /\ LET list == RemindersOf(localStorage, defaultReminders)
       IN  /\ \E i \in 1..Len(list) : list[i].id = lastOp.id /\ list[i].intervalDays = 14
           /\ \E i \in 1..Len(list) :
                 list[i].id # lastOp.id /\ Field(list[i], "lastNotified") # Undefined

============================================================================
